---- MODULE Spec2Model ----
(***************************************************************************)
(* A model of the fkio execution engine (packages/core/src/index.ts):      *)
(* the frame-based evaluator `step`, the promise classes, the user         *)
(* function builder and the start()/wait() driver, run on a host with a    *)
(* single thread, a microtask queue and timers.                            *)
(***************************************************************************)
EXTENDS Integers, Sequences, FiniteSets, TLC

(***************************************************************************)
(* Bounds of the model.                                                    *)
(***************************************************************************)
\* how many times the host calls start() or wait() on one execution
MaxDrivers == 1
\* how many times the user of the demo page presses Run
MaxRuns == 2

(***************************************************************************)
(* Values.  Every value is a record tagged by t; no two kinds share a      *)
(* payload field.                                                          *)
(***************************************************************************)
Undef == [t |-> "undefined"]
Null == [t |-> "null"]
Num(n) == [t |-> "number", n |-> n]
Str(s) == [t |-> "string", s |-> s]
Bool(b) == [t |-> "boolean", b |-> b]
PromiseV(p) == [t |-> "promise", pid |-> p]
FuncV(f) == [t |-> "function", fid |-> f]
HostFn(h) == [t |-> "hostfn", h |-> h]
ScopeV(s) == [t |-> "scope", sid |-> s]
Obj(f) == [t |-> "object", f |-> f]
ErrorV(msg) == [t |-> "error", msg |-> msg]
\* index.ts:5 and index.ts:8
kUninitialized == [t |-> "kUninitialized"]
kAbort == [t |-> "kAbort"]

Nullish(v) == v.t \in {"undefined", "null"}
Primitive(v) == v.t \in {"undefined", "null", "number", "string", "boolean"}
Truthy(v) ==
  CASE v.t \in {"undefined", "null"} -> FALSE
    [] v.t = "boolean" -> v.b
    [] v.t = "number" -> v.n # 0
    [] v.t = "string" -> v.s # ""
    [] OTHER -> TRUE

\* a record with string keys, as a function
Put(f, k, v) == [x \in DOMAIN f \cup {k} |-> IF x = k THEN v ELSE f[x]]
Empty == [x \in {} |-> Undef]

(***************************************************************************)
(* The AST, in the shape @babel/parser gives it.  An absent optional child *)
(* is the node NoNode.                                                     *)
(***************************************************************************)
NoNode == [type |-> "absent"]
Program(body) == [type |-> "Program", body |-> body]
BlockStatement(body) == [type |-> "BlockStatement", body |-> body]
ExpressionStatement(e) == [type |-> "ExpressionStatement", expression |-> e]
ReturnStatement(a) == [type |-> "ReturnStatement", argument |-> a]
VariableDeclaration(name, init) ==
  [type |-> "VariableDeclaration",
   declarations |-> <<[id |-> [type |-> "Identifier", name |-> name], init |-> init]>>]
Identifier(name) == [type |-> "Identifier", name |-> name]
NumericLiteral(n) == [type |-> "NumericLiteral", value |-> Num(n)]
StringLiteral(s) == [type |-> "StringLiteral", value |-> Str(s)]
AwaitExpression(a) == [type |-> "AwaitExpression", argument |-> a]
CallExpression(callee, args) ==
  [type |-> "CallExpression", callee |-> callee, arguments |-> args]
ArrowFunctionExpression(async, params, body) ==
  [type |-> "ArrowFunctionExpression", async |-> async, params |-> params, body |-> body]
DebuggerStatement == [type |-> "DebuggerStatement"]
NullLiteral == [type |-> "NullLiteral"]
BooleanLiteral(b) == [type |-> "BooleanLiteral", value |-> Bool(b)]
AssignmentExpression(operator, left, right) ==
  [type |-> "AssignmentExpression", operator |-> operator, left |-> left, right |-> right]
LogicalExpression(operator, left, right) ==
  [type |-> "LogicalExpression", operator |-> operator, left |-> left, right |-> right]
BinaryExpression(operator, left, right) ==
  [type |-> "BinaryExpression", operator |-> operator, left |-> left, right |-> right]
ArrayExpression(elements) == [type |-> "ArrayExpression", elements |-> elements]
SpreadElement(argument) == [type |-> "SpreadElement", argument |-> argument]
NewExpression(callee, args) ==
  [type |-> "NewExpression", callee |-> callee, arguments |-> args]
\* for (const val of arr) { ... }: step has no case for it, so its children
\* are never read
ForOfStatement == [type |-> "ForOfStatement"]
FunctionExpression(async, params, body) ==
  [type |-> "FunctionExpression", async |-> async, params |-> params, body |-> body]
ThisExpression == [type |-> "ThisExpression"]
BreakStatement == [type |-> "BreakStatement"]
ContinueStatement == [type |-> "ContinueStatement"]
IfStatement(test, consequent, alternate) ==
  [type |-> "IfStatement", test |-> test, consequent |-> consequent,
   alternate |-> alternate]
ForStatement(init, test, update, body) ==
  [type |-> "ForStatement", init |-> init, test |-> test, update |-> update,
   body |-> body]
WhileStatement(test, body) == [type |-> "WhileStatement", test |-> test, body |-> body]
DoWhileStatement(body, test) ==
  [type |-> "DoWhileStatement", test |-> test, body |-> body]
\* object.property
MemberExpression(object, property) ==
  [type |-> "MemberExpression", object |-> object, property |-> property,
   computed |-> FALSE]
ObjectExpression(properties) == [type |-> "ObjectExpression", properties |-> properties]
\* key: value
ObjectProperty(key, value) ==
  [type |-> "ObjectProperty", key |-> Identifier(key), value |-> value]
\* key(params) body
ObjectMethod(key, params, body) ==
  [type |-> "ObjectMethod", key |-> Identifier(key), async |-> FALSE, params |-> params,
   body |-> body]

\* await p; log(id)
ProgAwait ==
  Program(<<ExpressionStatement(AwaitExpression(Identifier("p"))),
            ExpressionStatement(CallExpression(Identifier("log"), <<Identifier("id")>>))>>)
\* await p; log(x)        (x is bound nowhere)
ProgAwaitThrow ==
  Program(<<ExpressionStatement(AwaitExpression(Identifier("p"))),
            ExpressionStatement(CallExpression(Identifier("log"), <<Identifier("x")>>))>>)
\* log(x)                 (x is bound nowhere)
ProgThrow ==
  Program(<<ExpressionStatement(CallExpression(Identifier("log"), <<Identifier("x")>>))>>)
\* const f = async () => { await sleep(10); log('hi') }
\* const g = async () => { await f(); await f() }
\* await g()              (tests/input.js, spec scenario 1)
ProgNested ==
  Program(<<
    VariableDeclaration("f", ArrowFunctionExpression(TRUE, <<>>, BlockStatement(<<
      ExpressionStatement(AwaitExpression(
        CallExpression(Identifier("sleep"), <<NumericLiteral(10)>>))),
      ExpressionStatement(CallExpression(Identifier("log"), <<StringLiteral("hi")>>))>>))),
    VariableDeclaration("g", ArrowFunctionExpression(TRUE, <<>>, BlockStatement(<<
      ExpressionStatement(AwaitExpression(CallExpression(Identifier("f"), <<>>))),
      ExpressionStatement(AwaitExpression(CallExpression(Identifier("f"), <<>>)))>>))),
    ExpressionStatement(AwaitExpression(CallExpression(Identifier("g"), <<>>)))>>)
\* const h = async () => { await p; return id }
\* log(await h())
ProgReturn ==
  Program(<<
    VariableDeclaration("h", ArrowFunctionExpression(TRUE, <<>>, BlockStatement(<<
      ExpressionStatement(AwaitExpression(Identifier("p"))),
      ReturnStatement(Identifier("id"))>>))),
    ExpressionStatement(CallExpression(Identifier("log"),
      <<AwaitExpression(CallExpression(Identifier("h"), <<>>))>>))>>)

\* const k = () => id
\* log(k())
ProgSync ==
  Program(<<
    VariableDeclaration("k", ArrowFunctionExpression(FALSE, <<>>, Identifier("id"))),
    ExpressionStatement(CallExpression(Identifier("log"),
      <<CallExpression(Identifier("k"), <<>>)>>))>>)

\* log(a); let a = 1     (spec scenario: a read before its declaration)
ProgReadBeforeLet ==
  Program(<<ExpressionStatement(CallExpression(Identifier("log"), <<Identifier("a")>>)),
            VariableDeclaration("a", NumericLiteral(1))>>)
\* let b = 1; log(b); let a = a
ProgSelfInit ==
  Program(<<VariableDeclaration("b", NumericLiteral(1)),
            ExpressionStatement(CallExpression(Identifier("log"), <<Identifier("b")>>)),
            VariableDeclaration("a", Identifier("a"))>>)
\* let a = (a = 1)
ProgSelfAssign ==
  Program(<<VariableDeclaration("a",
              AssignmentExpression("=", Identifier("a"), NumericLiteral(1)))>>)
\* log(<left> <operator> log(7)), for a left operand that is falsy, truthy
\* or nullish
LeftOperands == {NumericLiteral(0), NumericLiteral(1), NullLiteral}
LogicalOperators == {"&&", "||", "??"}
ProgLogical(operator, left) ==
  Program(<<ExpressionStatement(CallExpression(Identifier("log"),
    <<LogicalExpression(operator, left,
        CallExpression(Identifier("log"), <<NumericLiteral(7)>>))>>))>>)
\* log(1 + 2 < 4)
ProgBinary ==
  Program(<<ExpressionStatement(CallExpression(Identifier("log"),
    <<BinaryExpression("<",
        BinaryExpression("+", NumericLiteral(1), NumericLiteral(2)),
        NumericLiteral(4))>>))>>)
\* const k = () => id
\* log(new k(log(1), log(2)), log(3))
ProgOrder ==
  Program(<<
    VariableDeclaration("k", ArrowFunctionExpression(FALSE, <<>>, Identifier("id"))),
    ExpressionStatement(CallExpression(Identifier("log"),
      <<NewExpression(Identifier("k"),
          <<CallExpression(Identifier("log"), <<NumericLiteral(1)>>),
            CallExpression(Identifier("log"), <<NumericLiteral(2)>>)>>),
        CallExpression(Identifier("log"), <<NumericLiteral(3)>>)>>))>>)
\* x(log(1))             (x is bound nowhere)
ProgCalleeLast ==
  Program(<<ExpressionStatement(CallExpression(Identifier("x"),
    <<CallExpression(Identifier("log"), <<NumericLiteral(1)>>)>>))>>)
\* const arr = [ 1, 2, 3 ]
\* const sleep = ms => new Promise(resolve => setTimeout(resolve, ms))
\* const promises = []
\* for (const val of arr) { promises.push(sleep(...).then(...)) }
\* await Promise.all(promises)              (src/unnamed/part_001)
\* The last statement is never reached; its callee Promise.all is written
\* as an identifier.
ProgFanOut ==
  Program(<<
    VariableDeclaration("arr", ArrayExpression(
      <<NumericLiteral(1), NumericLiteral(2), NumericLiteral(3)>>)),
    VariableDeclaration("sleep", ArrowFunctionExpression(FALSE, <<Identifier("ms")>>,
      NewExpression(Identifier("Promise"), <<Identifier("ms")>>))),
    VariableDeclaration("promises", ArrayExpression(<<>>)),
    ForOfStatement,
    ExpressionStatement(AwaitExpression(
      CallExpression(Identifier("all"), <<Identifier("promises")>>)))>>)
\* let v = 1
\* const k = () => v
\* v = 2
\* log(k())
\* const s = () => v = 3
\* s()
\* log(v)
ProgClosure ==
  Program(<<
    VariableDeclaration("v", NumericLiteral(1)),
    VariableDeclaration("k", ArrowFunctionExpression(FALSE, <<>>, Identifier("v"))),
    ExpressionStatement(AssignmentExpression("=", Identifier("v"), NumericLiteral(2))),
    ExpressionStatement(CallExpression(Identifier("log"),
      <<CallExpression(Identifier("k"), <<>>)>>)),
    VariableDeclaration("s", ArrowFunctionExpression(FALSE, <<>>,
      AssignmentExpression("=", Identifier("v"), NumericLiteral(3)))),
    ExpressionStatement(CallExpression(Identifier("s"), <<>>)),
    ExpressionStatement(CallExpression(Identifier("log"), <<Identifier("v")>>))>>)

\* const o = {
\*   tag: 1,
\*   m: function () { return this },
\*   n() { return this },
\*   a: function () { const k = () => this; return k() }
\* }
\* log(o.m()); log(o.n()); log(o.a())
\* const f = o.m
\* log(f())
\* const t = () => this
\* t()
ProgThis ==
  Program(<<
    VariableDeclaration("o", ObjectExpression(<<
      ObjectProperty("tag", NumericLiteral(1)),
      ObjectProperty("m", FunctionExpression(FALSE, <<>>,
        BlockStatement(<<ReturnStatement(ThisExpression)>>))),
      ObjectMethod("n", <<>>, BlockStatement(<<ReturnStatement(ThisExpression)>>)),
      ObjectProperty("a", FunctionExpression(FALSE, <<>>, BlockStatement(<<
        VariableDeclaration("k", ArrowFunctionExpression(FALSE, <<>>, ThisExpression)),
        ReturnStatement(CallExpression(Identifier("k"), <<>>))>>)))>>)),
    ExpressionStatement(CallExpression(Identifier("log"),
      <<CallExpression(MemberExpression(Identifier("o"), Identifier("m")), <<>>)>>)),
    ExpressionStatement(CallExpression(Identifier("log"),
      <<CallExpression(MemberExpression(Identifier("o"), Identifier("n")), <<>>)>>)),
    ExpressionStatement(CallExpression(Identifier("log"),
      <<CallExpression(MemberExpression(Identifier("o"), Identifier("a")), <<>>)>>)),
    VariableDeclaration("f", MemberExpression(Identifier("o"), Identifier("m"))),
    ExpressionStatement(CallExpression(Identifier("log"),
      <<CallExpression(Identifier("f"), <<>>)>>)),
    VariableDeclaration("t", ArrowFunctionExpression(FALSE, <<>>, ThisExpression)),
    ExpressionStatement(CallExpression(Identifier("t"), <<>>))>>)

\* name += 1
Increment(name) == AssignmentExpression("+=", Identifier(name), NumericLiteral(1))
\* log(n)
LogNumber(n) ==
  ExpressionStatement(CallExpression(Identifier("log"), <<NumericLiteral(n)>>))
\* log(name)
LogName(name) ==
  ExpressionStatement(CallExpression(Identifier("log"), <<Identifier(name)>>))
\* const r = () => { for (;;) { if (1) { return 5 } log(0) } log(0) }
\* log(r())
\* const u = () => { while (1) { return } }
\* log(u())
ProgReturnNested ==
  Program(<<
    VariableDeclaration("r", ArrowFunctionExpression(FALSE, <<>>, BlockStatement(<<
      ForStatement(NoNode, NoNode, NoNode, BlockStatement(<<
        IfStatement(NumericLiteral(1),
                    BlockStatement(<<ReturnStatement(NumericLiteral(5))>>), NoNode),
        LogNumber(0)>>)),
      LogNumber(0)>>))),
    ExpressionStatement(CallExpression(Identifier("log"),
      <<CallExpression(Identifier("r"), <<>>)>>)),
    VariableDeclaration("u", ArrowFunctionExpression(FALSE, <<>>, BlockStatement(<<
      WhileStatement(NumericLiteral(1), BlockStatement(<<ReturnStatement(NoNode)>>))>>))),
    ExpressionStatement(CallExpression(Identifier("log"),
      <<CallExpression(Identifier("u"), <<>>)>>))>>)
\* let i = 0
\* while (1) { i += 1; if (i === 2) { break } log(i) }
\* log(9)
\* for (;;) { do { break; log(0) } while (1); log(8); break }
\* log(7)
ProgBreak ==
  Program(<<
    VariableDeclaration("i", NumericLiteral(0)),
    WhileStatement(NumericLiteral(1), BlockStatement(<<
      ExpressionStatement(Increment("i")),
      IfStatement(BinaryExpression("===", Identifier("i"), NumericLiteral(2)),
                  BlockStatement(<<BreakStatement>>), NoNode),
      LogName("i")>>)),
    LogNumber(9),
    ForStatement(NoNode, NoNode, NoNode, BlockStatement(<<
      DoWhileStatement(BlockStatement(<<BreakStatement, LogNumber(0)>>), NumericLiteral(1)),
      LogNumber(8),
      BreakStatement>>)),
    LogNumber(7)>>)
\* for (let i = 0; i < 3; i += 1) { if (i === 1) { continue } log(i) }
\* let j = 0
\* while (j < 3) { j += 1; if (j === 2) { continue } log(j) }
ProgContinue ==
  Program(<<
    ForStatement(VariableDeclaration("i", NumericLiteral(0)),
                 BinaryExpression("<", Identifier("i"), NumericLiteral(3)),
                 Increment("i"),
                 BlockStatement(<<
      IfStatement(BinaryExpression("===", Identifier("i"), NumericLiteral(1)),
                  BlockStatement(<<ContinueStatement>>), NoNode),
      LogName("i")>>)),
    VariableDeclaration("j", NumericLiteral(0)),
    WhileStatement(BinaryExpression("<", Identifier("j"), NumericLiteral(3)),
                   BlockStatement(<<
      ExpressionStatement(Increment("j")),
      IfStatement(BinaryExpression("===", Identifier("j"), NumericLiteral(2)),
                  BlockStatement(<<ContinueStatement>>), NoNode),
      LogName("j")>>))>>)
\* let k = 0
\* do { k += 1; if (k < 3) { continue } log(k) } while (k < 2)
\* log(k)
ProgDoContinue ==
  Program(<<
    VariableDeclaration("k", NumericLiteral(0)),
    DoWhileStatement(BlockStatement(<<
      ExpressionStatement(Increment("k")),
      IfStatement(BinaryExpression("<", Identifier("k"), NumericLiteral(3)),
                  BlockStatement(<<ContinueStatement>>), NoNode),
      LogName("k")>>),
      BinaryExpression("<", Identifier("k"), NumericLiteral(2))),
    LogName("k")>>)
\* for (let i = 0; i < 3; i += 1) { log(i); i = 5 }
ProgForScope ==
  Program(<<
    ForStatement(VariableDeclaration("i", NumericLiteral(0)),
                 BinaryExpression("<", Identifier("i"), NumericLiteral(3)),
                 Increment("i"),
                 BlockStatement(<<
      LogName("i"),
      ExpressionStatement(
        AssignmentExpression("=", Identifier("i"), NumericLiteral(5)))>>))>>)

\* let j = start
\* while (log(21) || j < 2) { log(22); j += 1 }      or
\* do { log(22); j += 1 } while (log(21) || j < 2)
\* log(23)
ProgLoop(do, start) ==
  LET test == LogicalExpression("||",
                CallExpression(Identifier("log"), <<NumericLiteral(21)>>),
                BinaryExpression("<", Identifier("j"), NumericLiteral(2)))
      body == BlockStatement(<<LogNumber(22), ExpressionStatement(Increment("j"))>>)
  IN Program(<<
       VariableDeclaration("j", NumericLiteral(start)),
       IF do THEN DoWhileStatement(body, test) ELSE WhileStatement(test, body),
       LogNumber(23)>>)
\* the values j starts with: the test is truthy twice, or never
Starts == {0, 5}

\* log(n) as an expression
Log(n) == CallExpression(Identifier("log"), <<NumericLiteral(n)>>)
\* let i = 0
\* for (log(10); log(11) || i < 2; log(13)) { log(12); i += 1; if (i === 3) { break } }
\* log(14)
\* with each of init, test and update present or absent
ProgFor(init, test, update) ==
  Program(<<
    VariableDeclaration("i", NumericLiteral(0)),
    ForStatement(IF init THEN Log(10) ELSE NoNode,
                 IF test
                 THEN LogicalExpression("||", Log(11),
                        BinaryExpression("<", Identifier("i"), NumericLiteral(2)))
                 ELSE NoNode,
                 IF update THEN Log(13) ELSE NoNode,
                 BlockStatement(<<
      LogNumber(12),
      ExpressionStatement(Increment("i")),
      IfStatement(BinaryExpression("===", Identifier("i"), NumericLiteral(3)),
                  BlockStatement(<<BreakStatement>>), NoNode)>>)),
    LogNumber(14)>>)

\* the operands of await that are neither promises nor thenables: 1, "s",
\* true, null, undefined (what log returns) and {}
AwaitOperands ==
  {NumericLiteral(1), StringLiteral("s"), BooleanLiteral(TRUE), NullLiteral, Log(0),
   ObjectExpression(<<>>)}
\* log(await v)
ProgAwaitValue(v) ==
  Program(<<ExpressionStatement(CallExpression(Identifier("log"), <<AwaitExpression(v)>>))>>)

\* log([1, ...[2, 3], 4]), with the elements before and after the spread
\* present or absent
ProgSpread(before, after) ==
  Program(<<ExpressionStatement(CallExpression(Identifier("log"), <<
    ArrayExpression((IF before THEN <<NumericLiteral(1)>> ELSE <<>>)
                    \o <<SpreadElement(ArrayExpression(<<NumericLiteral(2),
                                                         NumericLiteral(3)>>))>>
                    \o (IF after THEN <<NumericLiteral(4)>> ELSE <<>>))>>))>>)

\* const f = async () => { await sleep(1); x }     (x is bound nowhere)
\* await f()
\* log(1)
\* with the await of f present (the throw comes after the suspension) or
\* absent (before it)
ProgAsyncThrow(suspended) ==
  Program(<<
    VariableDeclaration("f", ArrowFunctionExpression(TRUE, <<>>, BlockStatement(
      (IF suspended
       THEN <<ExpressionStatement(AwaitExpression(
                CallExpression(Identifier("sleep"), <<NumericLiteral(1)>>)))>>
       ELSE <<>>)
      \o <<ExpressionStatement(Identifier("x"))>>))),
    ExpressionStatement(AwaitExpression(CallExpression(Identifier("f"), <<>>))),
    LogNumber(1)>>)

\* const f = () => { log(1); x }
\* await p
\* f()
\* x is bound nowhere: the call of f logs and then throws
ProgCallThrow ==
  Program(<<
    VariableDeclaration("f", ArrowFunctionExpression(FALSE, <<>>, BlockStatement(<<
      LogNumber(1),
      ExpressionStatement(Identifier("x"))>>))),
    ExpressionStatement(AwaitExpression(Identifier("p"))),
    ExpressionStatement(CallExpression(Identifier("f"), <<>>))>>)

(***************************************************************************)
(* State.                                                                  *)
(***************************************************************************)
VARIABLES
  executions,  \* runtime.executions: each execution's state and the closure
               \* variables of the call that made it
  scopes,      \* the Scope objects: their own bindings and kParentScope
  promises,    \* the promise objects
  funcs,       \* the user functions buildFunc has built
  microtasks,  \* the host's queue of promise reaction jobs
  callStack,   \* the host's call stack: the running drivers and pumps
  thrown,      \* the exception in flight
  returned,    \* the value a finished user function call hands to its caller
  log,         \* what the host's log function received
  timers,      \* the host's pending timers
  now,         \* the host's clock
  drivers,     \* the start() and wait() calls made: the execution, the promise
               \* wait() returned, whether the driver has stepped and is parked
  escaped,     \* errors that reached the host or were left unhandled
  host,        \* how the host runs the executions: "drive" (start()/wait() only)
               \* or "step" (step() by hand, then possibly start()/wait())
  stepped,     \* the driver and execution of the last step(), a tick, and
               \* whether that step left the execution as it was
  overtaken,   \* drivers that were not parked while another execution stepped
  turn,        \* the parity of the turns the host's event loop has taken
  runtime,     \* how many runtimes createRuntime has made: the last one is the
               \* runtime whose executions list the host reads
  ui           \* the demo page (App.vue): its state ref, "idle" or "waiting",
               \* the code in its text area and the kind of promise p that the
               \* page's globals hold

vars == <<executions, scopes, promises, funcs, microtasks, callStack, thrown,
          returned, log, timers, now, drivers, escaped, host, stepped, overtaken,
          turn, runtime, ui>>

\* the whole state as one record, so that the code's helpers compose
M == [executions |-> executions, scopes |-> scopes, promises |-> promises,
      funcs |-> funcs, microtasks |-> microtasks, callStack |-> callStack,
      thrown |-> thrown, returned |-> returned, log |-> log, timers |-> timers,
      now |-> now, drivers |-> drivers, escaped |-> escaped, host |-> host,
      stepped |-> stepped, overtaken |-> overtaken, turn |-> turn,
      runtime |-> runtime, ui |-> ui]

Becomes(m) ==
  /\ executions' = m.executions
  /\ scopes' = m.scopes
  /\ promises' = m.promises
  /\ funcs' = m.funcs
  /\ microtasks' = m.microtasks
  /\ callStack' = m.callStack
  /\ thrown' = m.thrown
  /\ returned' = m.returned
  /\ log' = m.log
  /\ timers' = m.timers
  /\ now' = m.now
  /\ drivers' = m.drivers
  /\ escaped' = m.escaped
  /\ host' = m.host
  /\ stepped' = m.stepped
  /\ overtaken' = m.overtaken
  /\ turn' = m.turn
  /\ runtime' = m.runtime
  /\ ui' = m.ui

\* the host's event loop has taken one more turn
Turn(m) == [m EXCEPT !.turn = 1 - @]

None == [on |-> FALSE]
Some(v) == [on |-> TRUE, v |-> v]

(***************************************************************************)
(* Promises: the host's Promise and the AbortablePromise of index.ts.      *)
(***************************************************************************)
Pending == [type |-> "Pending"]
Fulfilled(v) == [type |-> "Fulfilled", value |-> v]
Rejected(err) == [type |-> "Rejected", error |-> err]
Aborted == [type |-> "Aborted"]

Job(r, st, v) == [r |-> r, st |-> st, v |-> v]

\* a promise settles: its reactions are queued in the order they were added
\* faulty variant: the reactions of a promise run newest first
SettleNewestFirst(m, p, st, v) ==
  LET rs == m.promises[p].reactions IN
  [m EXCEPT !.promises[p] = [@ EXCEPT !.st = st, !.val = v, !.reactions = <<>>],
            !.microtasks = @ \o [i \in 1..Len(rs) |-> Job(rs[Len(rs) + 1 - i], st, v)]]

Settle(m, p, st, v) ==
  LET rs == m.promises[p].reactions IN
  [m EXCEPT !.promises[p] = [@ EXCEPT !.st = st, !.val = v, !.reactions = <<>>],
            !.microtasks = @ \o [i \in 1..Len(rs) |-> Job(rs[i], st, v)]]

\* the resolve function the executor receives; a thenable is adopted by a job
resolveFn(m, p, v) ==
  LET pr == m.promises[p] IN
  IF pr.locked THEN m
  ELSE IF v.t = "promise"
  THEN [m EXCEPT !.promises[p].locked = TRUE,
                 !.microtasks = Append(@, Job([k |-> "thenableJob", target |-> p], "fulfilled", v))]
  ELSE Settle([m EXCEPT !.promises[p].locked = TRUE], p, "fulfilled", v)

\* the reject function the executor receives
rejectFn(m, p, err) ==
  IF m.promises[p].locked THEN m
  ELSE Settle([m EXCEPT !.promises[p].locked = TRUE], p, "rejected", err)

\* promise.then(reaction)
then(m, p, r) ==
  LET pr == m.promises[p] IN
  IF pr.st = "pending"
  THEN [m EXCEPT !.promises[p].reactions = Append(@, r)]
  ELSE [m EXCEPT !.microtasks = Append(@, Job(r, pr.st, pr.val))]

NewPromise(abortable) ==
  [abortable |-> abortable, hasState |-> FALSE, state |-> Pending, aborted |-> FALSE,
   host |-> FALSE, st |-> "pending", val |-> Undef, locked |-> FALSE, reactions |-> <<>>]

\* new Promise(executor), before the executor runs; the promise is Len(promises)
newPromise(m) == [m EXCEPT !.promises = Append(@, NewPromise(FALSE))]

\* new AbortablePromise(executor), before the executor runs
newAbortablePromise(m) == [m EXCEPT !.promises = Append(@, NewPromise(TRUE))]

\* AbortablePromise.withState(executor), before the executor runs
withState(m) ==
  LET m1 == newAbortablePromise(m)
      p == Len(m1.promises)
  IN then([m1 EXCEPT !.promises[p].hasState = TRUE], p, [k |-> "withStateThen", p |-> p])

isPromiseWithState(m, v) ==
  /\ v.t = "promise"
  /\ m.promises[v.pid].abortable
  /\ m.promises[v.pid].hasState

\* AbortablePromise.abort: the controller fires its listener once
\* faulty variant: abort() writes the state itself
abortOverwritesState(m, p) ==
  rejectFn([m EXCEPT !.promises[p].aborted = TRUE, !.promises[p].state = Aborted], p, kAbort)

abort(m, p) ==
  IF m.promises[p].aborted THEN m
  ELSE rejectFn([m EXCEPT !.promises[p].aborted = TRUE], p, kAbort)

(***************************************************************************)
(* Scopes.                                                                 *)
(***************************************************************************)
RECURSIVE resolve(_, _, _)
\* the scope of the chain that has `name`, or 0
resolve(m, name, scope) ==
  IF name \in DOMAIN m.scopes[scope].vars THEN scope
  ELSE IF m.scopes[scope].parent # 0 THEN resolve(m, name, m.scopes[scope].parent)
  ELSE 0

\* the child scope is Len(scopes) afterwards
inheritScope(m, scope) ==
  [m EXCEPT !.scopes = Append(@, [vars |-> Empty, parent |-> scope])]

setVar(m, scope, name, v) == [m EXCEPT !.scopes[scope].vars = Put(@, name, v)]

(***************************************************************************)
(* Frames, push and ret.                                                   *)
(***************************************************************************)
discard == [k |-> "discard"]
asState == [k |-> "asState"]
asStateProp(prop) == [k |-> "asStateProp", prop |-> prop]
\* the onRet of buildFunc's bodyFrame
bodyRet == [k |-> "bodyFrame"]

Stack(m, e) == m.executions[e].stack
Top(m, e) == Stack(m, e)[Len(Stack(m, e))]
SetTop(m, e, f) == [m EXCEPT !.executions[e].stack[Len(Stack(m, e))] = f]
Pop(m, e) == [m EXCEPT !.executions[e].stack = SubSeq(@, 1, Len(@) - 1)]
\* faulty variant: the error thrown has lost its message
throwUnnamed(m, v) ==
  [m EXCEPT !.thrown = Some(IF v.t = "error" THEN ErrorV("Error") ELSE v)]
throw(m, v) == [m EXCEPT !.thrown = Some(v)]

\* scope 0 stands for an omitted scope: the top frame's scope
push(m, e, node, role, name, onRet, scope) ==
  [m EXCEPT !.executions[e].stack = Append(@,
     [node |-> node, role |-> role, name |-> name, onRet |-> onRet,
      scope |-> IF scope = 0 THEN Top(m, e).scope ELSE scope,
      index |-> 0, subIndex |-> 0, state |-> Undef])]
pushNode(m, e, node, onRet) == push(m, e, node, "", "", onRet, 0)

\* (frame.state ??= {})[prop] = value
StateProp(state, prop, value) ==
  IF Nullish(state) THEN Obj(Put(Empty, prop, value))
  ELSE Obj(Put(state.f, prop, value))

OnRet(m, e, onRet, value) ==
  CASE onRet.k = "discard" -> m
    [] onRet.k = "asState" -> SetTop(m, e, [Top(m, e) EXCEPT !.state = value])
    [] onRet.k = "asStateProp" ->
         SetTop(m, e, [Top(m, e) EXCEPT !.state = StateProp(@, onRet.prop, value)])
    [] onRet.k = "bodyFrame" ->
         [m EXCEPT !.executions[e].hasReturned = TRUE, !.executions[e].retValue = value]

\* faulty variant: the frame below keeps its subIndex
retKeepsSubIndex(m, e, value) ==
  LET frame == Top(m, e)
      m1 == Pop(m, e)
  IN IF Stack(m1, e) = <<>> THEN m1
     ELSE OnRet(m1, e, frame.onRet, value)

ret(m, e, value) ==
  LET frame == Top(m, e)
      m1 == Pop(m, e)
  IN IF Stack(m1, e) = <<>> THEN m1
     ELSE OnRet(SetTop(m1, e, [Top(m1, e) EXCEPT !.subIndex = @ + 1]), e, frame.onRet, value)

(***************************************************************************)
(* createExecution and buildFunc.                                          *)
(***************************************************************************)
Arr(a) == [t |-> "array", a |-> a]

\* runtime.executions of runtime r: `executions` holds the executions of
\* every runtime, in the order they were made
RuntimeExecutions(m, r) == SelectSeq(m.executions, LAMBDA x : x.runtime = r)

\* faulty variant: the id counts the executions that have not returned
createExecutionCountsLive(m, rootNode, rootScope, isRoot) ==
  [m EXCEPT !.executions = Append(@,
     [stack |-> <<[node |-> rootNode, role |-> "", name |-> "", onRet |-> discard,
                   scope |-> rootScope, index |-> 0, subIndex |-> 0, state |-> Undef]>>,
      awaitingPromise |-> 0,
      hasReturned |-> FALSE, retValue |-> Undef, promise |-> 0,
      rootNode |-> rootNode, rootScope |-> rootScope,
      runtime |-> m.runtime,
      id |-> Len(SelectSeq(m.executions,
                           LAMBDA x : x.runtime = m.runtime /\ ~x.hasReturned)),
      root |-> isRoot])]

\* createExecution: a state with the root frame pushed, appended to
\* runtime.executions of the runtime in use; the execution is Len(executions)
\* afterwards and its id the length the list had.  With the state go the
\* variables of the user function call that made the execution: hasReturned,
\* retValue and the promise whose executor pumps it (0: none).
createExecution(m, rootNode, rootScope, isRoot) ==
  [m EXCEPT !.executions = Append(@,
     [stack |-> <<[node |-> rootNode, role |-> "", name |-> "", onRet |-> discard,
                   scope |-> rootScope, index |-> 0, subIndex |-> 0, state |-> Undef]>>,
      awaitingPromise |-> 0,
      hasReturned |-> FALSE, retValue |-> Undef, promise |-> 0,
      rootNode |-> rootNode, rootScope |-> rootScope,
      runtime |-> m.runtime,
      id |-> Len(RuntimeExecutions(m, m.runtime)),
      root |-> isRoot])]

\* faulty variant: the function keeps a copy of the defining scope
buildFuncSnapshots(m, frame, node, name) ==
  [m EXCEPT !.scopes = Append(@, m.scopes[frame.scope]),
            !.funcs = Append(@, [node |-> node, scope |-> Len(m.scopes) + 1, name |-> name])]

\* buildFunc: the function is Len(funcs) afterwards.  It keeps the frame that
\* defines it, whose scope it reads when it is called.
buildFunc(m, frame, node, name) ==
  [m EXCEPT !.funcs = Append(@, [node |-> node, scope |-> frame.scope, name |-> name])]

RECURSIVE bindParams(_, _, _, _, _)
\* node.params.forEach of the function buildFunc builds
bindParams(m, funcScope, params, args, index) ==
  IF index > Len(params) \/ m.thrown.on THEN m
  ELSE LET param == params[index] IN
       CASE param.type = "Identifier" ->
              bindParams(setVar(m, funcScope, param.name,
                                IF index <= Len(args) THEN args[index] ELSE Undef),
                         funcScope, params, args, index + 1)
         [] param.type = "RestElement" /\ param.argument.type = "Identifier" ->
              bindParams(setVar(m, funcScope, param.argument.name,
                                Arr(SubSeq(args, index, Len(args)))),
                         funcScope, params, args, index + 1)
         [] param.type = "RestElement" ->
              throw(m, ErrorV("Unsupported RestElement.argument.type"))
         [] OTHER -> throw(m, ErrorV("Unsupported ArrowFunctionExpression.params.type"))

\* a running driver or pump: its execution, its promise (0: none), where it
\* was called from, and for a driver which start()/wait() call it belongs to
Activation(k, e, p, ctx, d) == [k |-> k, e |-> e, p |-> p, ctx |-> ctx, d |-> d]

\* faulty variant: every function gets a this of its own
userFunctionArrowThis(m, f, this, args) ==
  LET fn == m.funcs[f]
      m1 == inheritScope(m, fn.scope)
      funcScope == Len(m1.scopes)
      m2 == setVar(m1, funcScope, "this", this)
      m3 == bindParams(m2, funcScope, fn.node.params, args, 1)
      m4 == createExecution(m3, fn.node.body, funcScope, FALSE)
      funcExecution == Len(m4.executions)
      m5 == [m4 EXCEPT !.executions[funcExecution].stack = Append(@,
               [node |-> fn.node.body, role |-> "call", name |-> "", onRet |-> bodyRet,
                scope |-> funcScope, index |-> 0, subIndex |-> 0, state |-> Undef])]
  IN [m5 EXCEPT !.callStack = Append(@, Activation("syncPump", funcExecution, 0, "", 0))]

\* the function buildFunc builds, up to the first step of its execution:
\* the synchronous pump, or the executor of the promise an async function
\* returns, runs on top of the caller
userFunction(m, f, this, args) ==
  LET fn == m.funcs[f]
      m1 == inheritScope(m, fn.scope)
      funcScope == Len(m1.scopes)
      m2 == IF fn.node.type # "ArrowFunctionExpression"
            THEN setVar(m1, funcScope, "this", this) ELSE m1
      m3 == bindParams(m2, funcScope, fn.node.params, args, 1)
      m4 == createExecution(m3, fn.node.body, funcScope, FALSE)
      funcExecution == Len(m4.executions)
      m5 == [m4 EXCEPT !.executions[funcExecution].stack = Append(@,
               [node |-> fn.node.body, role |-> "call", name |-> "", onRet |-> bodyRet,
                scope |-> funcScope, index |-> 0, subIndex |-> 0, state |-> Undef])]
      m6 == newAbortablePromise(m5)
  IN IF m3.thrown.on THEN m3
     ELSE IF fn.node.async
     THEN [m6 EXCEPT !.executions[funcExecution].promise = Len(m6.promises),
                     !.callStack =
             Append(@, Activation("asyncPump", funcExecution, Len(m6.promises), "executor", 0))]
     ELSE [m5 EXCEPT !.callStack = Append(@, Activation("syncPump", funcExecution, 0, "", 0))]

\* the functions the host put into the root scope
hostFunction(m, h, args) ==
  CASE h = "log" -> [m |-> [m EXCEPT !.log = Append(@, args)], v |-> Undef]
    [] h = "sleep" ->
         LET m1 == newPromise(m)
             p == Len(m1.promises)
         IN [m |-> [m1 EXCEPT !.timers = @ \cup {[p |-> p, due |-> m.now + args[1].n]}],
             v |-> PromiseV(p)]

(***************************************************************************)
(* step: one case per node type.                                           *)
(***************************************************************************)
stepBlock(m, e) ==
  LET frame == Top(m, e)
      node == frame.node
      mi == inheritScope(m, frame.scope)
      m1 == IF Nullish(frame.state)
            THEN SetTop(mi, e, [frame EXCEPT
                   !.state = Obj(Put(Empty, "blockScope", ScopeV(Len(mi.scopes))))])
            ELSE m
      f1 == Top(m1, e)
  IN IF f1.index = Len(node.body) THEN ret(m1, e, Undef)
     ELSE CASE f1.subIndex = 0 ->
                 push(m1, e, node.body[f1.index + 1], "", "", discard,
                      f1.state.f["blockScope"].sid)
            [] f1.subIndex = 1 ->
                 SetTop(m1, e, [f1 EXCEPT !.subIndex = 0, !.index = @ + 1])
            [] OTHER -> m1

RECURSIVE unwindToCall(_, _, _)
\* the while (true) of ReturnStatement; reading the role of the top of an
\* empty stack is a TypeError
unwindToCall(m, e, value) ==
  IF Stack(m, e) = <<>> THEN throw(m, ErrorV("TypeError"))
  ELSE IF Top(m, e).role = "call" THEN ret(m, e, value)
  ELSE unwindToCall(Pop(m, e), e, value)

\* faulty variant: return leaves only its own frame
stepReturnNoUnwind(m, e) ==
  LET frame == Top(m, e)
      node == frame.node
  IN CASE frame.subIndex = 0 ->
            IF node.argument = NoNode
            THEN SetTop(m, e, [frame EXCEPT !.subIndex = @ + 1])
            ELSE pushNode(m, e, node.argument, asState)
       [] frame.subIndex = 1 -> ret(m, e, frame.state)
       [] OTHER -> m

stepReturn(m, e) ==
  LET frame == Top(m, e)
      node == frame.node
  IN CASE frame.subIndex = 0 ->
            IF node.argument = NoNode
            THEN SetTop(m, e, [frame EXCEPT !.subIndex = @ + 1])
            ELSE pushNode(m, e, node.argument, asState)
       [] frame.subIndex = 1 -> unwindToCall(m, e, frame.state)
       [] OTHER -> m

\* isLoop of @babel/types
isLoop(node) ==
  node.type \in {"DoWhileStatement", "ForInStatement", "ForStatement", "WhileStatement",
                 "ForOfStatement"}

RECURSIVE unwindToLoop(_, _)
\* the while (true) of BreakStatement; reading the node of the top of an
\* empty stack is a TypeError
unwindToLoop(m, e) ==
  IF Stack(m, e) = <<>> THEN throw(m, ErrorV("TypeError"))
  ELSE IF isLoop(Top(m, e).node) THEN ret(m, e, Undef)
  ELSE unwindToLoop(Pop(m, e), e)

\* faulty variant: break leaves the frames above the loop and not the loop
stepBreakKeepsLoop(m, e) ==
  LET popped == unwindToLoop(m, e) IN
  IF popped.thrown.on THEN popped
  ELSE [m EXCEPT !.executions[e].stack = SubSeq(@, 1, Len(Stack(popped, e)) + 1)]

stepBreak(m, e) == unwindToLoop(m, e)

RECURSIVE stepContinueSkipsUpdate(_, _)
\* faulty variant: continue sends a for loop to its test
stepContinueSkipsUpdate(m, e) ==
  IF Stack(m, e) = <<>> THEN throw(m, ErrorV("TypeError"))
  ELSE LET top == Top(m, e) IN
       IF isLoop(top.node)
       THEN CASE top.node.type = "ForStatement" ->
                   SetTop(m, e, [top EXCEPT !.subIndex = 0, !.index = 1])
              [] top.node.type = "WhileStatement" ->
                   SetTop(m, e, [top EXCEPT !.subIndex = 0, !.index = 0])
              [] top.node.type = "DoWhileStatement" ->
                   SetTop(m, e, [top EXCEPT !.subIndex = 0, !.index = 1])
              [] OTHER -> stepContinueSkipsUpdate(Pop(m, e), e)
       ELSE stepContinueSkipsUpdate(Pop(m, e), e)

RECURSIVE stepContinueReentersBody(_, _)
\* faulty variant: continue sends a do-while loop to its body
stepContinueReentersBody(m, e) ==
  IF Stack(m, e) = <<>> THEN throw(m, ErrorV("TypeError"))
  ELSE LET top == Top(m, e) IN
       IF isLoop(top.node)
       THEN CASE top.node.type = "ForStatement" ->
                   SetTop(m, e, [top EXCEPT !.subIndex = 0, !.index = 3])
              [] top.node.type = "WhileStatement" ->
                   SetTop(m, e, [top EXCEPT !.subIndex = 0, !.index = 0])
              [] top.node.type = "DoWhileStatement" ->
                   SetTop(m, e, [top EXCEPT !.subIndex = 0, !.index = 0])
              [] OTHER -> stepContinueReentersBody(Pop(m, e), e)
       ELSE stepContinueReentersBody(Pop(m, e), e)

RECURSIVE stepContinue(_, _)
\* the while (true) of ContinueStatement; a loop of another type than the
\* three has its subIndex set and is popped like any frame
stepContinue(m, e) ==
  IF Stack(m, e) = <<>> THEN throw(m, ErrorV("TypeError"))
  ELSE LET top == Top(m, e) IN
       IF isLoop(top.node)
       THEN CASE top.node.type = "ForStatement" ->
                   SetTop(m, e, [top EXCEPT !.subIndex = 0, !.index = 3])
              [] top.node.type = "WhileStatement" ->
                   SetTop(m, e, [top EXCEPT !.subIndex = 0, !.index = 0])
              [] top.node.type = "DoWhileStatement" ->
                   SetTop(m, e, [top EXCEPT !.subIndex = 0, !.index = 1])
              [] OTHER -> stepContinue(Pop(m, e), e)
       ELSE stepContinue(Pop(m, e), e)

stepIf(m, e) ==
  LET frame == Top(m, e)
      node == frame.node
  IN CASE frame.subIndex = 0 -> pushNode(m, e, node.test, asState)
       [] frame.subIndex = 1 ->
            IF Truthy(frame.state) THEN pushNode(m, e, node.consequent, discard)
            ELSE IF node.alternate # NoNode THEN pushNode(m, e, node.alternate, discard)
            ELSE ret(m, e, Undef)
       [] frame.subIndex = 2 -> ret(m, e, Undef)
       [] OTHER -> m

\* state.test, undefined while no test has returned
Test(frame) ==
  IF "test" \in DOMAIN frame.state.f THEN frame.state.f["test"] ELSE Undef

\* { ...state.initScope }: a scope with the bindings initScope has now and
\* with its kParentScope; the copy is Len(scopes) afterwards
copyScope(m, scope) == [m EXCEPT !.scopes = Append(@, m.scopes[scope])]

RECURSIVE forFrom(_, _, _)
\* the switch (frame.index) of ForStatement entered at case c; a case that
\* does not return falls through to the next one
forFrom(m, e, c) ==
  LET frame == Top(m, e)
      node == frame.node
      initScope == frame.state.f["initScope"].sid
      mc == copyScope(m, initScope)
  IN CASE c = 0 ->
            IF node.init = NoNode THEN forFrom(m, e, 1)
            ELSE CASE frame.subIndex = 0 -> push(m, e, node.init, "", "", discard, initScope)
                   [] frame.subIndex = 1 ->
                        forFrom(SetTop(m, e, [frame EXCEPT !.index = 1, !.subIndex = 0]), e, 1)
                   [] OTHER -> forFrom(m, e, 1)
       [] c = 1 ->
            IF node.test = NoNode THEN forFrom(m, e, 2)
            ELSE CASE frame.subIndex = 0 ->
                        push(m, e, node.test, "", "", asStateProp("test"), initScope)
                   [] frame.subIndex = 1 ->
                        IF ~Truthy(Test(frame)) THEN ret(m, e, Undef)
                        ELSE forFrom(SetTop(m, e, [frame EXCEPT !.index = 2, !.subIndex = 0]),
                                     e, 2)
                   [] OTHER -> forFrom(m, e, 2)
       [] c = 2 ->
            CASE frame.subIndex = 0 ->
                   push(mc, e, node.body, "", "", discard, Len(mc.scopes))
              [] frame.subIndex = 1 ->
                   forFrom(SetTop(m, e, [frame EXCEPT !.index = 3, !.subIndex = 0]), e, 3)
              [] OTHER -> forFrom(m, e, 3)
       [] c = 3 ->
            CASE frame.subIndex = 0 /\ node.update # NoNode ->
                   push(m, e, node.update, "", "", discard, initScope)
              [] frame.subIndex \in {0, 1} ->
                   SetTop(m, e, [frame EXCEPT !.index = 1, !.subIndex = 0])
              [] OTHER -> m
       [] OTHER -> m

\* faulty variant: the loop ends when its update has returned
stepForEndsAfterUpdate(m, e) ==
  LET frame == Top(m, e)
      mi == inheritScope(m, frame.scope)
      m1 == IF Nullish(frame.state)
            THEN SetTop(mi, e, [frame EXCEPT
                   !.state = Obj(Put(Empty, "initScope", ScopeV(Len(mi.scopes))))])
            ELSE m
  IN IF frame.index = 3 /\ frame.subIndex = 1 THEN ret(m, e, Undef)
     ELSE forFrom(m1, e, frame.index)

stepFor(m, e) ==
  LET frame == Top(m, e)
      mi == inheritScope(m, frame.scope)
      m1 == IF Nullish(frame.state)
            THEN SetTop(mi, e, [frame EXCEPT
                   !.state = Obj(Put(Empty, "initScope", ScopeV(Len(mi.scopes))))])
            ELSE m
  IN forFrom(m1, e, frame.index)

RECURSIVE whileFrom(_, _, _)
\* the switch of DoWhileStatement / WhileStatement entered at case c
whileFrom(m, e, c) ==
  LET frame == Top(m, e)
      node == frame.node
      flipped == [frame EXCEPT !.index = 1 - @, !.subIndex = 0]
  IN CASE c = 0 ->
            CASE frame.subIndex = 0 -> pushNode(m, e, node.test, asStateProp("test"))
              [] frame.subIndex = 1 ->
                   IF ~Truthy(Test(frame)) THEN ret(m, e, Undef)
                   ELSE whileFrom(SetTop(m, e, flipped), e, 1)
              [] OTHER -> whileFrom(m, e, 1)
       [] c = 1 ->
            CASE frame.subIndex = 0 -> pushNode(m, e, node.body, discard)
              [] frame.subIndex = 1 -> SetTop(m, e, flipped)
              [] OTHER -> m
       [] OTHER -> m

\* faulty variant: a do-while loop starts with its test
stepWhileTestsFirst(m, e) ==
  LET frame == Top(m, e)
      m1 == IF Nullish(frame.state) THEN SetTop(m, e, [frame EXCEPT !.state = Obj(Empty)])
            ELSE m
  IN IF Nullish(frame.state) /\ frame.node.type = "DoWhileStatement"
     THEN whileFrom(m1, e, 0)
     ELSE whileFrom(m1, e,
            IF frame.node.type = "WhileStatement" THEN frame.index ELSE 1 - frame.index)

stepWhile(m, e) ==
  LET frame == Top(m, e)
      m1 == IF Nullish(frame.state) THEN SetTop(m, e, [frame EXCEPT !.state = Obj(Empty)])
            ELSE m
  IN whileFrom(m1, e,
               IF frame.node.type = "WhileStatement" THEN frame.index ELSE 1 - frame.index)

\* faulty variant: case 1 returns without ret()
stepExpressionStatementStuck(m, e) ==
  LET frame == Top(m, e) IN
  CASE frame.subIndex = 0 -> pushNode(m, e, frame.node.expression, discard)
    [] OTHER -> m

stepExpressionStatement(m, e) ==
  LET frame == Top(m, e) IN
  CASE frame.subIndex = 0 -> pushNode(m, e, frame.node.expression, discard)
    [] frame.subIndex = 1 -> ret(m, e, Undef)
    [] OTHER -> m

\* faulty variant: the binding is undefined while its initializer runs
stepVariableDeclarationNoSentinel(m, e) ==
  LET frame == Top(m, e)
      node == frame.node
      declaration == node.declarations[frame.index + 1]
      name == declaration.id.name
      advance(mm) ==
        LET f == Top(mm, e)
            m1 == SetTop(mm, e, [f EXCEPT !.index = @ + 1])
        IN IF f.index + 1 = Len(node.declarations) THEN ret(m1, e, Undef) ELSE m1
  IN IF declaration.init = NoNode
     THEN advance(setVar(m, frame.scope, name, Undef))
     ELSE CASE frame.subIndex = 0 ->
                 push(setVar(m, frame.scope, name, Undef), e,
                      declaration.init, "", name, asState, 0)
            [] frame.subIndex = 1 ->
                 advance(SetTop(setVar(m, frame.scope, name, frame.state), e,
                                [frame EXCEPT !.state = Undef, !.subIndex = 0]))
            [] OTHER -> advance(m)

stepVariableDeclaration(m, e) ==
  LET frame == Top(m, e)
      node == frame.node
      declaration == node.declarations[frame.index + 1]
      name == declaration.id.name
      \* if (++ frame.index === node.declarations.length) ret()
      advance(mm) ==
        LET f == Top(mm, e)
            m1 == SetTop(mm, e, [f EXCEPT !.index = @ + 1])
        IN IF f.index + 1 = Len(node.declarations) THEN ret(m1, e, Undef) ELSE m1
  IN IF declaration.id.type # "Identifier"
     THEN throw(m, ErrorV("Unsupported VariableDeclaration.id.type"))
     ELSE IF declaration.init = NoNode
     THEN advance(setVar(m, frame.scope, name, Undef))
     ELSE CASE frame.subIndex = 0 ->
                 push(setVar(m, frame.scope, name, kUninitialized), e,
                      declaration.init, "", name, asState, 0)
            [] frame.subIndex = 1 ->
                 advance(SetTop(setVar(m, frame.scope, name, frame.state), e,
                                [frame EXCEPT !.state = Undef, !.subIndex = 0]))
            [] OTHER -> advance(m)

stepIdentifier(m, e) ==
  LET frame == Top(m, e)
      node == frame.node
      name == IF node.type = "Identifier" THEN node.name ELSE "this"
      scope == resolve(m, name, frame.scope)
      variable == m.scopes[scope].vars[name]
  IN IF frame.role = "key" THEN ret(m, e, Str(name))
     ELSE IF scope = 0 THEN throw(m, ErrorV("is not defined"))
     ELSE IF variable = kUninitialized THEN throw(m, ErrorV("has not been initialized"))
     ELSE IF frame.role = "left"
     THEN ret(m, e, Obj(Put(Put(Empty, "object", ScopeV(scope)), "key", Str(name))))
     ELSE IF frame.role = "callee"
     THEN ret(m, e, Obj(Put(Put(Empty, "function", variable), "this", Undef)))
     ELSE ret(m, e, variable)

stepFunction(m, e) ==
  LET frame == Top(m, e)
      m1 == buildFunc(m, frame, frame.node, frame.name)
  IN ret(m1, e, FuncV(Len(m1.funcs)))

\* callee.function.call(callee.this, ...args) and what the step does with its
\* value; a user function leaves its pump on the call stack, and the step
\* ends when the pump hands back `returned`
call(m, e, callee, args) ==
  LET fn == callee.f["function"]
      r == hostFunction(m, fn.h, args)
  IN CASE fn.t = "hostfn" -> ret(r.m, e, r.v)
       [] fn.t = "function" -> userFunction(m, fn.fid, callee.f["this"], args)
       [] OTHER -> throw(m, ErrorV("TypeError"))

\* new (callee.function)(...args): the host functions are arrow functions,
\* which are no constructors; a user function is called with a new object
\* as this
construct(m, e, callee, args) ==
  LET fn == callee.f["function"] IN
  IF fn.t = "function" THEN userFunction(m, fn.fid, Obj(Empty), args)
  ELSE throw(m, ErrorV("TypeError"))

\* what a call hands to ret: new gives the new object unless the function
\* returned an object
called(node, value) ==
  IF node.type = "NewExpression" /\ Primitive(value) THEN Obj(Empty) ELSE value

\* faulty variant: the arguments are evaluated from the last to the first
stepCallBackwards(m, e) ==
  LET frame == Top(m, e)
      node == frame.node
      argsLength == Len(node.arguments)
      m1 == IF Nullish(frame.state)
            THEN SetTop(m, e, [frame EXCEPT !.state = Obj(Put(Empty, "args", Arr(<<>>)))])
            ELSE m
      f1 == Top(m1, e)
      state == f1.state.f
      argument == node.arguments[argsLength - f1.index]
  IN IF f1.index < argsLength
     THEN CASE f1.subIndex = 0 -> pushNode(m1, e, argument, asStateProp("currentArg"))
            [] f1.subIndex = 1 ->
                 SetTop(m1, e, [f1 EXCEPT
                   !.state = Obj(Put(state, "args",
                                     Arr(<<state["currentArg"]>> \o state["args"].a))),
                   !.subIndex = 0, !.index = @ + 1])
            [] OTHER -> m1
     ELSE IF f1.index = argsLength
     THEN CASE f1.subIndex = 0 ->
                 push(m1, e, node.callee, "callee", "", asStateProp("callee"), 0)
            [] f1.subIndex = 1 ->
                 IF node.type = "NewExpression"
                 THEN construct(m1, e, state["callee"], state["args"].a)
                 ELSE call(m1, e, state["callee"], state["args"].a)
            [] f1.subIndex = 2 -> ret(m1, e, state["ret"])
            [] OTHER -> m1
     ELSE m1

stepCall(m, e) ==
  LET frame == Top(m, e)
      node == frame.node
      argsLength == Len(node.arguments)
      m1 == IF Nullish(frame.state)
            THEN SetTop(m, e, [frame EXCEPT !.state = Obj(Put(Empty, "args", Arr(<<>>)))])
            ELSE m
      f1 == Top(m1, e)
      state == f1.state.f
      argument == node.arguments[f1.index + 1]
  IN IF f1.index < argsLength
     THEN CASE f1.subIndex = 0 ->
                 pushNode(m1, e,
                          IF argument.type = "SpreadElement" THEN argument.argument
                          ELSE argument,
                          asStateProp("currentArg"))
            [] f1.subIndex = 1 ->
                 SetTop(m1, e, [f1 EXCEPT
                   !.state = Obj(Put(state, "args",
                     IF argument.type = "SpreadElement"
                     THEN Arr(state["args"].a \o state["currentArg"].a)
                     ELSE Arr(Append(state["args"].a, state["currentArg"])))),
                   !.subIndex = 0, !.index = @ + 1])
            [] OTHER -> m1
     ELSE IF f1.index = argsLength
     THEN CASE f1.subIndex = 0 ->
                 push(m1, e, node.callee, "callee", "", asStateProp("callee"), 0)
            [] f1.subIndex = 1 ->
                 IF node.type = "OptionalCallExpression"
                    /\ Nullish(state["callee"].f["function"])
                 THEN ret(m1, e, state["callee"].f["function"])
                 ELSE IF node.type = "NewExpression"
                 THEN construct(m1, e, state["callee"], state["args"].a)
                 ELSE call(m1, e, state["callee"], state["args"].a)
            [] f1.subIndex = 2 -> ret(m1, e, state["ret"])
            [] OTHER -> m1
     ELSE m1

\* object[key] of a value: the properties of objects are modelled, every
\* other value has none
Get(object, key) ==
  IF object.t = "object" /\ key.t = "string" /\ key.s \in DOMAIN object.f
  THEN object.f[key.s] ELSE Undef

stepMember(m, e) ==
  LET frame == Top(m, e)
      node == frame.node
      object == frame.state.f["object"]
      key == frame.state.f["key"]
      value == Get(object, key)
  IN CASE frame.subIndex = 0 -> pushNode(m, e, node.object, asStateProp("object"))
       [] frame.subIndex = 1 ->
            push(m, e, node.property, IF node.computed THEN "" ELSE "key", "",
                 asStateProp("key"), 0)
       [] frame.subIndex = 2 ->
            IF frame.role = "left"
            THEN ret(m, e, Obj(Put(Put(Empty, "object", object), "key", key)))
            \* object[key] of null or undefined is a TypeError
            ELSE IF Nullish(object) /\ node.type # "OptionalMemberExpression"
            THEN throw(m, ErrorV("TypeError"))
            ELSE IF frame.role = "callee"
            THEN ret(m, e, Obj(Put(Put(Empty, "function", value), "this", object)))
            ELSE ret(m, e, value)
       [] OTHER -> m

\* Object.assign(target, source) on the properties that are modelled
Assign(target, source) ==
  IF source.t # "object" THEN target
  ELSE Obj([k \in DOMAIN target.f \cup DOMAIN source.f |->
              IF k \in DOMAIN source.f THEN source.f[k] ELSE target.f[k]])

stepObject(m, e) ==
  LET frame == Top(m, e)
      node == frame.node
      m1 == IF Nullish(frame.state)
            THEN SetTop(m, e, [frame EXCEPT !.state = Obj(Put(Empty, "object", Obj(Empty)))])
            ELSE m
      f1 == Top(m1, e)
      state == f1.state.f
      property == node.properties[f1.index + 1]
      \* state.object[currentKey] = value; frame.subIndex = 0; frame.index ++
      set(mm, value) ==
        SetTop(mm, e, [f1 EXCEPT
          !.state = Obj(Put(state, "object",
                            Obj(Put(state["object"].f, state["currentKey"].s, value)))),
          !.subIndex = 0, !.index = @ + 1])
      mb == buildFunc(m1, f1, property, state["currentKey"].s)
  IN IF f1.index = Len(node.properties) THEN ret(m1, e, state["object"])
     ELSE CASE property.type = "ObjectProperty" ->
                 CASE f1.subIndex = 0 ->
                        push(m1, e, property.key, "key", "", asStateProp("currentKey"), 0)
                   [] f1.subIndex = 1 ->
                        pushNode(m1, e, property.value, asStateProp("currentValue"))
                   [] f1.subIndex = 2 -> set(m1, state["currentValue"])
                   [] OTHER -> m1
            [] property.type = "ObjectMethod" ->
                 CASE f1.subIndex = 0 ->
                        push(m1, e, property.key, "key", "", asStateProp("currentKey"), 0)
                   [] f1.subIndex = 1 -> set(mb, FuncV(Len(mb.funcs)))
                   [] OTHER -> m1
            [] property.type = "SpreadElement" ->
                 CASE f1.subIndex = 0 ->
                        pushNode(m1, e, property.argument, asStateProp("currentValue"))
                   [] f1.subIndex = 1 ->
                        SetTop(m1, e, [f1 EXCEPT
                          !.state = Obj(Put(state, "object",
                                            Assign(state["object"], state["currentValue"]))),
                          !.subIndex = 0, !.index = @ + 1])
                   [] OTHER -> throw(m1, ErrorV("Unsupported ObjectExpression.property.type"))
            [] OTHER -> throw(m1, ErrorV("Unsupported ObjectExpression.property.type"))

\* an empty slot of an array
Hole == [t |-> "hole"]
\* array[index] = value, which leaves holes when index is beyond the end
SetAt(a, index, value) ==
  [i \in 1..(IF index + 1 > Len(a) THEN index + 1 ELSE Len(a)) |->
     IF i = index + 1 THEN value ELSE IF i <= Len(a) THEN a[i] ELSE Hole]

stepArray(m, e) ==
  LET frame == Top(m, e)
      node == frame.node
      m1 == IF Nullish(frame.state)
            THEN SetTop(m, e, [frame EXCEPT
                   !.state = Obj(Put(Put(Empty, "array", Arr(<<>>)), "index", Num(0)))])
            ELSE m
      f1 == Top(m1, e)
      state == f1.state.f
      element == node.elements[f1.index + 1]
      spread == state["array"].a \o state["currentElement"].a
  IN IF f1.index = Len(node.elements) THEN ret(m1, e, state["array"])
     ELSE IF element = NoNode
     THEN SetTop(m1, e, [f1 EXCEPT
            !.state = Obj(Put(state, "index", Num(state["index"].n + 1))),
            !.index = @ + 1])
     ELSE CASE f1.subIndex = 0 ->
                 pushNode(m1, e,
                          IF element.type = "SpreadElement" THEN element.argument
                          ELSE element,
                          asStateProp("currentElement"))
            [] f1.subIndex = 1 /\ element.type = "SpreadElement" ->
                 \* const length = state.array.push(...); state.index += length
                 SetTop(m1, e, [f1 EXCEPT
                   !.state = Obj(Put(Put(state, "array", Arr(spread)),
                                     "index", Num(state["index"].n + Len(spread)))),
                   !.subIndex = 0, !.index = @ + 1])
            [] f1.subIndex = 1 ->
                 SetTop(m1, e, [f1 EXCEPT
                   !.state = Obj(Put(Put(state, "array",
                                         Arr(SetAt(state["array"].a, state["index"].n,
                                                   state["currentElement"]))),
                                     "index", Num(state["index"].n + 1))),
                   !.subIndex = 0, !.index = @ + 1])
            [] OTHER -> m1

\* the operators of case 2, on numbers; of the source's operators the ones
\* the programs use are modelled
Operate(operator, lhs, rhs) ==
  CASE operator = "+" -> Num(lhs.n + rhs.n)
    [] operator = "-" -> Num(lhs.n - rhs.n)
    [] operator = "*" -> Num(lhs.n * rhs.n)
    [] operator = "<" -> Bool(lhs.n < rhs.n)
    [] operator = "<=" -> Bool(lhs.n <= rhs.n)
    [] operator = ">" -> Bool(lhs.n > rhs.n)
    [] operator = ">=" -> Bool(lhs.n >= rhs.n)
    [] operator = "===" -> Bool(lhs = rhs)
    [] operator = "!==" -> Bool(lhs # rhs)

\* faulty variant: the right operand is pushed whatever the left one is
stepBinaryNoShortCircuit(m, e) ==
  LET frame == Top(m, e)
      node == frame.node
      m1 == IF Nullish(frame.state) THEN SetTop(m, e, [frame EXCEPT !.state = Obj(Empty)])
            ELSE m
      state == Top(m1, e).state.f
  IN CASE frame.subIndex = 0 -> pushNode(m1, e, node.left, asStateProp("lhs"))
       [] frame.subIndex = 1 -> pushNode(m1, e, node.right, asStateProp("rhs"))
       [] frame.subIndex = 2 ->
            IF node.operator \in {"&&", "||", "??"} THEN ret(m1, e, state["rhs"])
            ELSE ret(m1, e, Operate(node.operator, state["lhs"], state["rhs"]))
       [] OTHER -> m1

stepBinary(m, e) ==
  LET frame == Top(m, e)
      node == frame.node
      m1 == IF Nullish(frame.state) THEN SetTop(m, e, [frame EXCEPT !.state = Obj(Empty)])
            ELSE m
      state == Top(m1, e).state.f
      lhs == state["lhs"]
  IN CASE frame.subIndex = 0 -> pushNode(m1, e, node.left, asStateProp("lhs"))
       [] frame.subIndex = 1 ->
            IF \/ node.operator = "&&" /\ ~Truthy(lhs)
               \/ node.operator = "||" /\ Truthy(lhs)
               \/ node.operator = "??" /\ ~Nullish(lhs)
            THEN ret(m1, e, lhs)
            ELSE pushNode(m1, e, node.right, asStateProp("rhs"))
       [] frame.subIndex = 2 ->
            IF node.operator \in {"&&", "||", "??"} THEN ret(m1, e, state["rhs"])
            ELSE ret(m1, e, Operate(node.operator, lhs, state["rhs"]))
       [] OTHER -> m1

stepAssignment(m, e) ==
  LET frame == Top(m, e)
      node == frame.node
      lhs == frame.state.f["left"].f
      rhs == frame.state.f["right"]
      scope == lhs["object"].sid
      key == lhs["key"].s
      old == m.scopes[scope].vars[key]
      assigned(value) ==
        ret(SetTop(setVar(m, scope, key, value), e, [frame EXCEPT !.state = Undef]),
            e, value)
  IN CASE frame.subIndex = 0 -> pushNode(m, e, node.right, asStateProp("right"))
       [] frame.subIndex = 1 ->
            push(m, e, node.left, "left", "", asStateProp("left"), 0)
       [] frame.subIndex = 2 ->
            CASE node.operator = "=" -> assigned(rhs)
              [] node.operator = "+=" -> assigned(Operate("+", old, rhs))
              [] node.operator = "-=" -> assigned(Operate("-", old, rhs))
              [] node.operator = "*=" -> assigned(Operate("*", old, rhs))
              \* value ??= rhs, for all three
              [] node.operator \in {"&&=", "||=", "??="} ->
                   assigned(IF Nullish(old) THEN rhs ELSE old)
              [] OTHER -> throw(m, ErrorV("Unsupported AssignmentExpression.operator"))
       [] OTHER -> m

\* faulty variant: awaitingPromise is cleared on fulfilment only
stepAwaitKeepsPromise(m, e) ==
  LET frame == Top(m, e)
      arg == frame.state
      parked == SetTop(m, e, [frame EXCEPT !.subIndex = 2])
      mw == withState(parked)
      awaitingPromise == m.promises[m.executions[e].awaitingPromise]
      m0 == [m EXCEPT !.executions[e].awaitingPromise = 0]
  IN CASE frame.subIndex = 0 -> pushNode(m, e, frame.node.argument, asState)
       [] frame.subIndex = 1 ->
            IF m.executions[e].awaitingPromise # 0
            THEN throw(m, ErrorV("Awaiting promise is already set"))
            ELSE IF isPromiseWithState(m, arg)
            THEN [parked EXCEPT !.executions[e].awaitingPromise = arg.pid]
            ELSE IF Primitive(arg) THEN throw(m, ErrorV("TypeError"))
            ELSE IF arg.t = "promise"
            THEN then([mw EXCEPT !.executions[e].awaitingPromise = Len(mw.promises)],
                      arg.pid, [k |-> "wrap", p |-> Len(mw.promises)])
            ELSE ret(m, e, arg)
       [] frame.subIndex = 2 ->
            IF m.executions[e].awaitingPromise = 0
            THEN throw(m, ErrorV("Awaiting promise is not set"))
            ELSE CASE awaitingPromise.state.type = "Pending" -> m
                   [] awaitingPromise.state.type = "Fulfilled" ->
                        ret(m0, e, awaitingPromise.state.value)
                   [] awaitingPromise.state.type = "Rejected" ->
                        throw(m, awaitingPromise.state.error)
                   [] awaitingPromise.state.type = "Aborted" -> throw(m, kAbort)
       [] OTHER -> m

stepAwait(m, e) ==
  LET frame == Top(m, e)
      arg == frame.state
      parked == SetTop(m, e, [frame EXCEPT !.subIndex = 2])
      mw == withState(parked)
      awaitingPromise == m.promises[m.executions[e].awaitingPromise]
      m0 == [m EXCEPT !.executions[e].awaitingPromise = 0]
  IN CASE frame.subIndex = 0 -> pushNode(m, e, frame.node.argument, asState)
       [] frame.subIndex = 1 ->
            IF m.executions[e].awaitingPromise # 0
            THEN throw(m, ErrorV("Awaiting promise is already set"))
            ELSE IF isPromiseWithState(m, arg)
            THEN [parked EXCEPT !.executions[e].awaitingPromise = arg.pid]
            \* 'then' in arg: a TypeError unless arg is an object
            ELSE IF Primitive(arg) THEN throw(m, ErrorV("TypeError"))
            ELSE IF arg.t = "promise"
            THEN then([mw EXCEPT !.executions[e].awaitingPromise = Len(mw.promises)],
                      arg.pid, [k |-> "wrap", p |-> Len(mw.promises)])
            ELSE ret(m, e, arg)
       [] frame.subIndex = 2 ->
            IF m.executions[e].awaitingPromise = 0
            THEN throw(m, ErrorV("Awaiting promise is not set"))
            ELSE CASE awaitingPromise.state.type = "Pending" -> m
                   [] awaitingPromise.state.type = "Fulfilled" ->
                        ret(m0, e, awaitingPromise.state.value)
                   [] awaitingPromise.state.type = "Rejected" ->
                        throw(m0, awaitingPromise.state.error)
                   [] awaitingPromise.state.type = "Aborted" -> throw(m0, kAbort)
       [] OTHER -> m

step(m, e) ==
  IF Stack(m, e) = <<>> THEN throw(m, ErrorV("Execution stack is empty"))
  ELSE LET node == Top(m, e).node IN
       CASE node.type \in {"BlockStatement", "Program"} -> stepBlock(m, e)
         [] node.type = "ReturnStatement" -> stepReturn(m, e)
         [] node.type = "BreakStatement" -> stepBreak(m, e)
         [] node.type = "ContinueStatement" -> stepContinue(m, e)
         [] node.type = "IfStatement" -> stepIf(m, e)
         [] node.type = "ForStatement" -> stepFor(m, e)
         [] node.type \in {"DoWhileStatement", "WhileStatement"} -> stepWhile(m, e)
         [] node.type = "ExpressionStatement" -> stepExpressionStatement(m, e)
         [] node.type = "VariableDeclaration" -> stepVariableDeclaration(m, e)
         [] node.type \in {"BooleanLiteral", "NumericLiteral", "NumberLiteral",
                           "StringLiteral", "BigIntLiteral"} -> ret(m, e, node.value)
         [] node.type = "NullLiteral" -> ret(m, e, Null)
         [] node.type \in {"ThisExpression", "Identifier"} -> stepIdentifier(m, e)
         [] node.type \in {"FunctionExpression", "ArrowFunctionExpression"} ->
              stepFunction(m, e)
         [] node.type \in {"NewExpression", "OptionalCallExpression", "CallExpression"} ->
              stepCall(m, e)
         [] node.type = "ObjectExpression" -> stepObject(m, e)
         [] node.type \in {"OptionalMemberExpression", "MemberExpression"} ->
              stepMember(m, e)
         [] node.type = "ArrayExpression" -> stepArray(m, e)
         [] node.type \in {"LogicalExpression", "BinaryExpression"} -> stepBinary(m, e)
         [] node.type = "AssignmentExpression" -> stepAssignment(m, e)
         [] node.type = "AwaitExpression" -> stepAwait(m, e)
         [] OTHER -> throw(m, ErrorV("Unsupported Node.type"))

(***************************************************************************)
(* The drivers: next of start()/wait(), the two pumps of buildFunc, and a  *)
(* step() the host calls itself.  The activation on top of the call stack  *)
(* runs; each action is one turn of its loop.                              *)
(***************************************************************************)
TopAct(m) == m.callStack[Len(m.callStack)]
PopAct(m) == [m EXCEPT !.callStack = SubSeq(@, 1, Len(@) - 1)]

\* bookkeeping of a driver's step, for the interleaving properties
noteStep(m, a) ==
  IF a.k # "driver" THEN [m EXCEPT !.stepped = [d |-> 0, e |-> a.e, tick |-> 1 - @.tick, idle |-> FALSE]]
  ELSE [m EXCEPT
    !.stepped = [d |-> a.d, e |-> a.e, tick |-> 1 - @.tick, idle |-> FALSE],
    !.drivers[a.d] = [@ EXCEPT !.stepped = TRUE, !.parked = FALSE],
    !.overtaken = (@ \ {a.d}) \cup
       {d \in DOMAIN m.drivers : /\ m.drivers[d].e # a.e
                                 /\ m.drivers[d].stepped
                                 /\ ~m.drivers[d].parked}]

\* faulty variant: next goes on from a job of its own instead of calling itself
afterNextYields(m) ==
  LET a == TopAct(m)
      awaitingPromise == m.executions[a.e].awaitingPromise
      r == [k |-> "next", e |-> a.e, p |-> a.p, d |-> a.d]
  IN IF awaitingPromise # 0
     THEN PopAct(then([m EXCEPT !.drivers[a.d].parked = TRUE], awaitingPromise, r))
     ELSE PopAct([m EXCEPT !.microtasks = Append(@, Job(r, "fulfilled", Undef))])

\* faulty variant: next returns at an await without chaining on the promise
afterNextForgets(m) ==
  LET a == TopAct(m) IN
  IF m.executions[a.e].awaitingPromise # 0
  THEN PopAct([m EXCEPT !.drivers[a.d].parked = TRUE])
  ELSE m

\* what next does after step() returned (index.ts:1117-1122)
afterNext(m) ==
  LET a == TopAct(m)
      awaitingPromise == m.executions[a.e].awaitingPromise
  IN IF awaitingPromise # 0
     THEN PopAct(then([m EXCEPT !.drivers[a.d].parked = TRUE], awaitingPromise,
                      [k |-> "next", e |-> a.e, p |-> a.p, d |-> a.d]))
     ELSE m

\* the async pump ends: the executor or the reaction returns, and in the
\* executor the call of the user function returns the promise
endAsync(m) ==
  LET a == TopAct(m) IN
  IF a.ctx = "executor" THEN [PopAct(m) EXCEPT !.returned = Some(PromiseV(a.p))]
  ELSE PopAct(m)

\* faulty variant: the pump resolves the promise when the body suspends
afterAsyncNextResolvesEarly(m) ==
  LET a == TopAct(m)
      x == m.executions[a.e]
  IN IF x.hasReturned \/ x.awaitingPromise # 0
     THEN endAsync(resolveFn(m, a.p, x.retValue))
     ELSE m

\* what the async pump does after step() returned (index.ts:296-302)
afterAsyncNext(m) ==
  LET a == TopAct(m)
      x == m.executions[a.e]
  IN IF x.hasReturned THEN endAsync(resolveFn(m, a.p, x.retValue))
     ELSE IF x.awaitingPromise # 0
     THEN endAsync(then(m, x.awaitingPromise, [k |-> "asyncNext", e |-> a.e, p |-> a.p]))
     ELSE m

\* what the synchronous pump does after step() returned (index.ts:313)
afterSyncStep(m) ==
  LET x == m.executions[TopAct(m).e] IN
  IF x.hasReturned THEN [PopAct(m) EXCEPT !.returned = Some(x.retValue)] ELSE m

afterStep(m) ==
  LET a == TopAct(m) IN
  CASE a.k = "driver" -> afterNext(m)
    [] a.k = "asyncPump" -> afterAsyncNext(m)
    [] a.k = "syncPump" -> afterSyncStep(m)
    [] a.k = "hostStep" -> PopAct(m)

\* bookkeeping: the step that led from m to m0 returned and left the
\* executions as they were
noteIdle(m, m0) ==
  [m0 EXCEPT !.stepped.idle = ~m0.thrown.on /\ m0.executions = m.executions]

\* the caller of step() goes on when step() returned to it: not when it
\* threw, nor while a user function it called is running
stepReturns(m, m1) ==
  IF m1.thrown.on \/ Len(m1.callStack) > Len(m.callStack) THEN m1
  ELSE afterStep(m1)

\* step() of the top activation's execution and, unless it threw or is still
\* inside a user function, what its caller does next
stepAndAfter(m) ==
  stepReturns(m, noteIdle(m, step(noteStep(m, TopAct(m)), TopAct(m).e)))

\* faulty variant: resolve() is also called when the execution suspends
nextResolvesOnSuspend(m) ==
  LET a == TopAct(m)
      m1 == stepAndAfter(m)
  IN IF Stack(m, a.e) = <<>>
     THEN PopAct(IF a.p # 0 THEN resolveFn(m, a.p, Undef) ELSE m)
     ELSE IF a.p # 0 /\ ~m1.thrown.on /\ m1.executions[a.e].awaitingPromise # 0
     THEN resolveFn(m1, a.p, Undef)
     ELSE m1

\* next (index.ts:1114-1123)
next(m) ==
  LET a == TopAct(m) IN
  IF Stack(m, a.e) = <<>>
  THEN PopAct(IF a.p # 0 THEN resolveFn(m, a.p, Undef) ELSE m)
  ELSE stepAndAfter(m)

\* next of the async branch of buildFunc (index.ts:291-303)
asyncNext(m) ==
  LET a == TopAct(m) IN
  IF Stack(m, a.e) = <<>> THEN endAsync(resolveFn(m, a.p, Undef))
  ELSE stepAndAfter(m)

\* one turn of while (true) of buildFunc (index.ts:308-314)
syncPump(m) ==
  LET a == TopAct(m) IN
  IF Stack(m, a.e) = <<>> THEN [PopAct(m) EXCEPT !.returned = Some(Undef)]
  ELSE stepAndAfter(m)

Running(k) ==
  /\ callStack # <<>>
  /\ ~thrown.on
  /\ ~returned.on
  /\ TopAct(M).k = k

DriverNext == Running("driver") /\ Becomes(Turn(next(M)))
AsyncNext == Running("asyncPump") /\ Becomes(Turn(asyncNext(M)))
SyncPump == Running("syncPump") /\ Becomes(Turn(syncPump(M)))

\* a user function returned: the CallExpression step of its caller ends with
\* ret(value) (index.ts:1052-1055)
CallReturns ==
  /\ callStack # <<>>
  /\ ~thrown.on
  /\ returned.on
  /\ Becomes(Turn(afterStep(ret([M EXCEPT !.returned = None], TopAct(M).e,
                                 called(Top(M, TopAct(M).e).node, returned.v)))))

\* an exception leaves the top activation
unwind(m) ==
  LET a == TopAct(m)
      m0 == [PopAct(m) EXCEPT !.thrown = None]
  IN CASE a.k = "syncPump" -> PopAct(m)
       \* the executor of new Promise / new AbortablePromise threw
       [] a.k = "driver" /\ a.ctx = "wait" -> rejectFn(m0, a.p, m.thrown.v)
       [] a.k = "asyncPump" /\ a.ctx = "executor" ->
            [rejectFn(m0, a.p, m.thrown.v) EXCEPT !.returned = Some(PromiseV(a.p))]
       \* a reaction threw: the promise then() returned is rejected, unobserved
       [] a.ctx = "microtask" ->
            [m0 EXCEPT !.escaped = @ \cup {[to |-> "unhandled", v |-> m.thrown.v]}]
       \* start() or step() throws to the host
       [] OTHER -> [m0 EXCEPT !.escaped = @ \cup {[to |-> "host", v |-> m.thrown.v]}]

Unwind ==
  /\ callStack # <<>>
  /\ thrown.on
  /\ Becomes(Turn(unwind(M)))

\* `await execution.wait()` of executeCode (App.vue:132), once wait() has
\* returned its promise: executeCode goes on in a job of that promise
ExecuteCodeAwait ==
  /\ Running("executeCode")
  /\ Becomes(Turn(PopAct(then(M, TopAct(M).p, [k |-> "executeCode"]))))

(***************************************************************************)
(* The microtask queue.                                                    *)
(***************************************************************************)
\* faulty variant: catch() does not tell kAbort from an error
stateJobNoAbort(m, job) ==
  LET p == job.r.p IN
  CASE job.r.k = "withStateThen" /\ job.st = "fulfilled" ->
         [m EXCEPT !.promises[p].state = Fulfilled(job.v)]
    [] job.r.k = "withStateThen" /\ job.st = "rejected" ->
         [m EXCEPT !.microtasks = Append(@, Job([k |-> "withStateCatch", p |-> p],
                                                "rejected", job.v))]
    [] job.r.k = "withStateCatch" ->
         [m EXCEPT !.promises[p].state = Rejected(job.v)]

\* the reactions withState adds (index.ts:51-69); the promise then() returns
\* passes a rejection on to catch() one job later
\* faulty variant: the rejection handler also runs after a fulfilment
stateJobAlsoCatches(m, job) ==
  LET p == job.r.p IN
  CASE job.r.k = "withStateThen" /\ job.st = "fulfilled" ->
         [m EXCEPT !.promises[p].state = Fulfilled(job.v),
                   !.microtasks = Append(@, Job([k |-> "withStateCatch", p |-> p],
                                                "rejected", job.v))]
    [] job.r.k = "withStateThen" /\ job.st = "rejected" ->
         [m EXCEPT !.microtasks = Append(@, Job([k |-> "withStateCatch", p |-> p],
                                                "rejected", job.v))]
    [] job.r.k = "withStateCatch" ->
         [m EXCEPT !.promises[p].state =
            IF job.v = kAbort THEN Aborted ELSE Rejected(job.v)]

stateJob(m, job) ==
  LET p == job.r.p IN
  CASE job.r.k = "withStateThen" /\ job.st = "fulfilled" ->
         [m EXCEPT !.promises[p].state = Fulfilled(job.v)]
    [] job.r.k = "withStateThen" /\ job.st = "rejected" ->
         [m EXCEPT !.microtasks = Append(@, Job([k |-> "withStateCatch", p |-> p],
                                                "rejected", job.v))]
    [] job.r.k = "withStateCatch" ->
         [m EXCEPT !.promises[p].state =
            IF job.v = kAbort THEN Aborted ELSE Rejected(job.v)]

\* arg.then(resolve, reject) of the await wrapper (index.ts:1079-1081), and
\* the host's adoption of a promise a promise was resolved with
settleJob(m, job) ==
  LET p == job.r.p IN
  CASE job.r.k = "wrap" /\ job.st = "fulfilled" -> resolveFn(m, p, job.v)
    [] job.r.k = "wrap" /\ job.st = "rejected" -> rejectFn(m, p, job.v)
    [] job.r.k = "thenableJob" -> then(m, job.v.pid, [k |-> "adopt", p |-> job.r.target])
    [] job.r.k = "adopt" -> Settle(m, p, job.st, job.v)

\* awaitingPromise.then(() => next(resolve)) and awaitingPromise.then(next):
\* only a fulfilment calls next; a rejection rejects the promise then()
\* returned, which nobody observes
resumeJob(m, job) ==
  IF job.st = "fulfilled"
  THEN [m EXCEPT !.callStack = Append(@,
          IF job.r.k = "next" THEN Activation("driver", job.r.e, job.r.p, "microtask", job.r.d)
          ELSE Activation("asyncPump", job.r.e, job.r.p, "microtask", 0))]
  ELSE [m EXCEPT !.escaped = @ \cup {[to |-> "unhandled", v |-> job.v]}]

\* executeCode after its await (App.vue:134-138): the catch block logs the
\* error, and the state is idle again
executeCodeJob(m, job) ==
  IF job.st = "fulfilled" THEN [m EXCEPT !.ui.state = "idle"]
  ELSE [m EXCEPT !.log = Append(@, <<job.v>>), !.ui.state = "idle"]

Dequeued == [M EXCEPT !.microtasks = Tail(@)]

JobReady(kinds) ==
  /\ callStack = <<>>
  /\ microtasks # <<>>
  /\ Head(microtasks).r.k \in kinds

StateJob ==
  /\ JobReady({"withStateThen", "withStateCatch"})
  /\ Becomes(Turn(stateJob(Dequeued, Head(microtasks))))
SettleJob ==
  /\ JobReady({"wrap", "thenableJob", "adopt"})
  /\ Becomes(Turn(settleJob(Dequeued, Head(microtasks))))
ResumeJob ==
  /\ JobReady({"next", "asyncNext"})
  /\ Becomes(Turn(resumeJob(Dequeued, Head(microtasks))))
ExecuteCodeJob ==
  /\ JobReady({"executeCode"})
  /\ Becomes(Turn(executeCodeJob(Dequeued, Head(microtasks))))

(***************************************************************************)
(* The host.                                                               *)
(***************************************************************************)
Roots == {e \in DOMAIN executions : executions[e].root}
DriversOf(e) == {d \in DOMAIN drivers : drivers[d].e = e}

\* the host hands an execution to at most MaxDrivers drivers, and to one more
\* in the scenarios that are about several drivers on one execution
DriverLimit == IF host = "drivers" THEN MaxDrivers + 1 ELSE MaxDrivers

\* execution.wait() (index.ts:1126), up to the first turn of next
HostWait(e) ==
  /\ callStack = <<>>
  /\ host # "demo"
  /\ Cardinality(DriversOf(e)) < DriverLimit
  /\ LET m1 == newPromise(M)
         w == Len(m1.promises)
         d == Len(drivers) + 1
     IN Becomes([m1 EXCEPT
          !.drivers = Append(@, [e |-> e, p |-> w, stepped |-> FALSE, parked |-> FALSE]),
          !.callStack = <<Activation("driver", e, w, "wait", d)>>])

\* execution.start() (index.ts:1125), up to the first turn of next
HostStart(e) ==
  /\ callStack = <<>>
  /\ host # "demo"
  /\ Cardinality(DriversOf(e)) < DriverLimit
  /\ Becomes([M EXCEPT
       !.drivers = Append(@, [e |-> e, p |-> 0, stepped |-> FALSE, parked |-> FALSE]),
       !.callStack = <<Activation("driver", e, 0, "start", Len(drivers) + 1)>>])

\* execution.step() called by the host, which steps by hand only executions
\* it has not handed to a driver
HostStep(e) ==
  /\ callStack = <<>>
  /\ host = "step"
  /\ DriversOf(e) = {}
  /\ Becomes(stepAndAfter([M EXCEPT !.callStack = <<Activation("hostStep", e, 0, "host", 0)>>]))

\* the host settles or aborts a promise it made, in a task of its own
Idle == callStack = <<>> /\ microtasks = <<>>

HostResolve(p) ==
  /\ Idle
  /\ promises[p].host
  /\ Becomes(resolveFn(M, p, Str("value")))
HostReject(p) ==
  /\ Idle
  /\ promises[p].host
  /\ Becomes(rejectFn(M, p, ErrorV("rejected")))
\* abort() of a promise the host made or reads from execution.state
HostAbort(p) ==
  /\ Idle
  /\ promises[p].abortable
  /\ \/ promises[p].host
     \/ \E e \in DOMAIN executions : executions[e].awaitingPromise = p
  /\ Becomes(abort(M, p))

\* the earliest timer fires when no job is left
TimerFire ==
  /\ Idle
  /\ \E t \in timers :
       /\ \A u \in timers : t.due <= u.due
       /\ Becomes(resolveFn([M EXCEPT !.timers = @ \ {t}, !.now = t.due], t.p, Undef))

(***************************************************************************)
(* The initial states: a runtime, its root executions made by execute, and *)
(* for each the root scope and the promise p the host supplies.            *)
(***************************************************************************)
Blank ==
  [executions |-> <<>>, scopes |-> <<>>, promises |-> <<>>, funcs |-> <<>>,
   microtasks |-> <<>>, callStack |-> <<>>, thrown |-> None, returned |-> None,
   log |-> <<>>, timers |-> {}, now |-> 0, drivers |-> <<>>, escaped |-> {},
   host |-> "drive",
   stepped |-> [d |-> 0, e |-> 0, tick |-> 0, idle |-> FALSE], overtaken |-> {},
   turn |-> 0, runtime |-> 1, ui |-> [state |-> "idle", code |-> NoNode, p |-> "none"]]

\* runtime.execute(code, {rootScope}); the root scope binds log, sleep, an id
\* and, unless pkind is "none", a promise p the host made with
\* AbortablePromise.withState ("observable") or new Promise ("native")
execute(m, prog, pkind) ==
  LET m1 == CASE pkind = "observable" -> withState(m)
              [] pkind = "native" -> newPromise(m)
              [] OTHER -> m
      p == Len(m1.promises)
      id == Len(m.executions) + 1
      names == {"id", "log", "sleep"} \cup (IF pkind = "none" THEN {} ELSE {"p"})
      vars0 == [x \in names |->
                  CASE x = "p" -> PromiseV(p)
                    [] x = "id" -> Num(id)
                    [] x = "log" -> HostFn("log")
                    [] x = "sleep" -> HostFn("sleep")]
      m2 == IF pkind = "none" THEN m1 ELSE [m1 EXCEPT !.promises[p].host = TRUE]
      m3 == [m2 EXCEPT !.scopes = Append(@, [vars |-> vars0, parent |-> 0])]
  IN createExecution(m3, prog, Len(m3.scopes), TRUE)

\* executeCode of the demo page (App.vue:117-132), up to the first turn of
\* next: Run is disabled unless the state is idle; the page makes a runtime,
\* empties its log, executes the code and calls wait()
executeCode(m) ==
  LET m1 == execute([m EXCEPT !.ui.state = "waiting", !.log = <<>>, !.runtime = @ + 1],
                    m.ui.code, m.ui.p)
      execution == Len(m1.executions)
      m2 == newPromise(m1)
      w == Len(m2.promises)
  IN [m2 EXCEPT
       !.drivers = Append(@, [e |-> execution, p |-> w, stepped |-> FALSE, parked |-> FALSE]),
       !.callStack = <<Activation("executeCode", execution, w, "host", 0),
                       Activation("driver", execution, w, "wait", Len(m.drivers) + 1)>>]

\* the user presses Run, in a task of its own
ExecuteCode ==
  /\ Idle
  /\ host = "demo"
  /\ ui.state = "idle"
  /\ runtime < MaxRuns
  /\ Becomes(executeCode(M))

\* the runs checked: the programs of the root executions and the kind of p;
\* on the demo page, the code in the text area
Scenarios ==
  { [progs |-> <<ProgAwait, ProgAwait>>, pkind |-> "observable", host |-> "drive"],
    [progs |-> <<ProgAwait>>, pkind |-> "native", host |-> "drive"],
    [progs |-> <<ProgAwaitThrow>>, pkind |-> "observable", host |-> "drive"],
    [progs |-> <<ProgAwaitThrow>>, pkind |-> "observable", host |-> "step"],
    [progs |-> <<ProgAwaitThrow>>, pkind |-> "native", host |-> "step"],
    [progs |-> <<ProgThrow>>, pkind |-> "none", host |-> "drive"],
    [progs |-> <<ProgNested>>, pkind |-> "none", host |-> "drive"],
    [progs |-> <<ProgNested>>, pkind |-> "none", host |-> "step"],
    [progs |-> <<ProgReturn>>, pkind |-> "observable", host |-> "drive"],
    [progs |-> <<ProgSync>>, pkind |-> "none", host |-> "drive"] }
  \cup { [progs |-> <<prog>>, pkind |-> "none", host |-> "drive"] :
            prog \in {ProgReadBeforeLet, ProgSelfInit, ProgSelfAssign, ProgBinary,
                      ProgOrder, ProgCalleeLast, ProgFanOut, ProgClosure, ProgThis,
                      ProgReturnNested, ProgBreak, ProgContinue, ProgDoContinue,
                      ProgForScope}
                     \cup {ProgLoop(do, start) : do \in BOOLEAN, start \in Starts}
                     \cup {ProgAwaitValue(v) : v \in AwaitOperands}
                     \cup {ProgSpread(before, after) :
                             before \in BOOLEAN, after \in BOOLEAN}
                     \cup {ProgAsyncThrow(suspended) : suspended \in BOOLEAN}
                     \cup {ProgFor(init, test, update) :
                             init \in BOOLEAN, test \in BOOLEAN, update \in BOOLEAN}
                     \cup {ProgLogical(operator, left) :
                             operator \in LogicalOperators, left \in LeftOperands} }
  \cup { [progs |-> <<prog>>, pkind |-> "observable", host |-> h] :
            prog \in {ProgAwait, ProgCallThrow}, h \in {"drive", "drivers"} }
  \cup { [progs |-> <<ProgAwait>>, pkind |-> "native", host |-> "demo"],
         [progs |-> <<ProgAwaitThrow>>, pkind |-> "native", host |-> "demo"],
         [progs |-> <<ProgThrow>>, pkind |-> "none", host |-> "demo"] }

Init ==
  \E scenario \in Scenarios :
    LET m1 == execute(Blank, scenario.progs[1], scenario.pkind)
        m2 == IF scenario.host = "demo"
              THEN [Blank EXCEPT !.runtime = 0, !.ui.code = scenario.progs[1],
                                 !.ui.p = scenario.pkind]
              ELSE IF Len(scenario.progs) > 1
              THEN execute(m1, scenario.progs[2], scenario.pkind) ELSE m1
    IN /\ executions = m2.executions
       /\ scopes = m2.scopes
       /\ promises = m2.promises
       /\ funcs = m2.funcs
       /\ microtasks = m2.microtasks
       /\ callStack = m2.callStack
       /\ thrown = m2.thrown
       /\ returned = m2.returned
       /\ log = m2.log
       /\ timers = m2.timers
       /\ now = m2.now
       /\ drivers = m2.drivers
       /\ escaped = m2.escaped
       /\ host = scenario.host
       /\ stepped = m2.stepped
       /\ overtaken = m2.overtaken
       /\ turn = m2.turn
       /\ runtime = m2.runtime
       /\ ui = m2.ui

Next ==
  \/ DriverNext
  \/ AsyncNext
  \/ SyncPump
  \/ CallReturns
  \/ Unwind
  \/ StateJob
  \/ SettleJob
  \/ ResumeJob
  \/ ExecuteCodeAwait
  \/ ExecuteCodeJob
  \/ ExecuteCode
  \/ TimerFire
  \/ \E e \in Roots : HostWait(e)
  \/ \E e \in Roots : HostStart(e)
  \/ \E e \in Roots : HostStep(e)
  \/ \E p \in DOMAIN promises : HostResolve(p)
  \/ \E p \in DOMAIN promises : HostReject(p)
  \/ \E p \in DOMAIN promises : HostAbort(p)

Spec == Init /\ [][Next]_vars

\* the host runs its call stack to completion and drains the microtask queue
Engine ==
  \/ DriverNext
  \/ AsyncNext
  \/ SyncPump
  \/ CallReturns
  \/ Unwind
  \/ StateJob
  \/ SettleJob
  \/ ResumeJob
  \/ ExecuteCodeAwait
  \/ ExecuteCodeJob

\* a turn of the event loop, which it can take whenever a call is running or
\* a job is queued; the turns of Engine are the ones that change turn
EngineTurn ==
  /\ callStack # <<>> \/ microtasks # <<>>
  /\ turn' = 1 - turn

FairSpec == Spec /\ WF_turn(EngineTurn)

(***************************************************************************)
(* Properties.                                                             *)
(***************************************************************************)
\* a step() of execution e ends in this transition without throwing: it was
\* called and returned in it, or the user function it had called returned
StepEnds(e) ==
  /\ ~thrown'.on
  /\ \/ /\ stepped'.tick # stepped.tick
        /\ stepped'.e = e
        /\ Len(callStack') <= IF callStack = <<>> THEN 1 ELSE Len(callStack)
     \/ /\ returned.on /\ ~thrown.on /\ callStack # <<>>
        /\ TopAct(M).e = e
\* a step() of execution e is called in this transition
StepCalled(e) == stepped'.tick # stepped.tick /\ stepped'.e = e

Polling(e) ==
  /\ executions[e].stack # <<>>
  /\ Top(M, e).node.type = "AwaitExpression"
  /\ Top(M, e).subIndex = 2
ObservedState(e) == promises[executions[e].awaitingPromise].state
WaitDrivers == {d \in DOMAIN drivers : drivers[d].p # 0}

\* C1: the promise wait() returned is resolved only by a turn of next that
\* finds the stack empty (no step() is called in it), every turn of a wait()
\* driver that finds the stack empty resolves it, and a resolved wait()
\* promise goes with an empty stack.
C1_WaitResolvesOnEmptyStack ==
  [][/\ \A d \in WaitDrivers :
          LET w == drivers[d].p
              e == drivers[d].e
          IN /\ promises[w].st = "pending" /\ promises'[w].st = "fulfilled"
                  => /\ executions[e].stack = <<>>
                     /\ stepped' = stepped
             /\ promises'[w].st = "fulfilled" => executions'[e].stack = <<>>
             /\ promises'[w].st = "fulfilled" => promises'[w].val = Undef
     /\ Running("driver") /\ TopAct(M).p # 0 /\ Stack(M, TopAct(M).e) = <<>>
          => /\ promises'[TopAct(M).p].st = "fulfilled"
             /\ stepped' = stepped]_vars
\* wait() was called on an execution that had finished: its promise is
\* resolved and its driver never called step()
C1_Witness ==
  \E d \in WaitDrivers :
    /\ promises[drivers[d].p].st = "fulfilled"
    /\ ~drivers[d].stepped
    /\ log # <<>>

\* C2: when a step() called by a wait() driver throws, in the first run or
\* in a run resumed after an await, the promise wait() returned is rejected
\* with that error.
C2_WaitRejectsWithError ==
  [][thrown.on /\ callStack # <<>> /\ TopAct(M).k = "driver" /\ TopAct(M).p # 0
       => /\ promises'[TopAct(M).p].st = "rejected"
          /\ promises'[TopAct(M).p].val = thrown.v]_vars

\* C3: a driven execution suspended on a promise is stepped again once the
\* promise has settled, however it settled: when the host has nothing left
\* to run, no driver is still parked on a promise whose state is settled.
C3_DriverResumesAfterSettlement ==
  Idle =>
    \A d \in DOMAIN drivers :
      drivers[d].parked /\ executions[drivers[d].e].awaitingPromise # 0
        => ObservedState(drivers[d].e).type = "Pending"

\* C4: abort() on the awaited promise while it is pending rejects it with
\* kAbort, its state becomes Aborted and never Rejected with kAbort, and the
\* step() taken in state Aborted sets awaitingPromise to null and throws
\* kAbort, leaving every frame as it was.
C4_AbortIsObservedAsAborted ==
  [][/\ \A e \in DOMAIN executions :
          LET p == executions[e].awaitingPromise IN
          /\ p # 0 /\ promises[p].st = "pending" /\ ~promises[p].aborted
               /\ promises'[p].aborted
               => promises'[p].st = "rejected" /\ promises'[p].val = kAbort
          /\ p # 0 /\ ObservedState(e).type = "Aborted" /\ StepCalled(e)
               => /\ executions'[e].awaitingPromise = 0
                  /\ thrown' = Some(kAbort)
                  /\ executions'[e].stack = executions[e].stack
     /\ \A q \in DOMAIN promises' :
          /\ promises'[q].state.type = "Rejected" => promises'[q].state.error # kAbort
          /\ promises'[q].val = kAbort /\ q \in DOMAIN promises
               /\ promises[q].state.type = "Pending" /\ promises'[q].state # promises[q].state
               => promises'[q].state = Aborted
          /\ Idle' /\ promises'[q].hasState /\ promises'[q].st = "rejected"
               /\ promises'[q].val = kAbort
               => promises'[q].state = Aborted]_vars
\* the step() after an abort has thrown kAbort and cleared awaitingPromise
C4_Witness ==
  \E e \in DOMAIN executions :
    /\ thrown = Some(kAbort)
    /\ Polling(e)
    /\ executions[e].awaitingPromise = 0
    /\ \E p \in DOMAIN promises : promises[p].aborted /\ promises[p].state = Aborted

\* C5: a driver that steps again without having parked on an await in
\* between has not been overtaken: no driver of another execution called
\* step() since its previous step.
C5_InterleaveOnlyAtAwait ==
  [][stepped'.tick # stepped.tick /\ stepped'.d # 0 => stepped'.d \notin overtaken]_vars
\* a driver is parked on its await while the driver of another execution
\* stepped last
C5_Witness ==
  \E d \in DOMAIN drivers :
    /\ drivers[d].stepped
    /\ drivers[d].parked
    /\ stepped.d \notin {0, d}
    /\ drivers[stepped.d].e # drivers[d].e

Logged(e) == \E i \in DOMAIN log : log[i] = <<Num(e)>>
NoAbort == \A q \in DOMAIN promises : ~promises[q].aborted
TwoStarted ==
  /\ Cardinality(Roots) = 2
  /\ \A e \in Roots : executions[e].runtime = runtime
  /\ \A e \in Roots : DriversOf(e) # {}

\* C6: two executions started back-to-back, each awaiting its own promise and
\* then logging its id: once both promises are fulfilled (and none was
\* aborted), both executions eventually have logged and both stacks are
\* empty, in whichever order the promises were fulfilled.
C6_NeitherStarves ==
  (/\ TwoStarted
   /\ NoAbort
   /\ \A q \in DOMAIN promises : promises[q].host => promises[q].st = "fulfilled")
    ~> (\A e \in Roots : Logged(e) /\ executions[e].stack = <<>>)
\* both executions were driven and have logged, the second one first
C6_Witness ==
  /\ TwoStarted
  /\ \A e \in Roots : executions[e].stack = <<>>
  /\ log = <<<<Num(2)>>, <<Num(1)>>>>

AsyncCalls == {e \in DOMAIN executions : executions[e].promise # 0}
Nested == \E f \in DOMAIN funcs : funcs[f].name = "g"
AwaitFrames(e) ==
  {i \in DOMAIN executions[e].stack : executions[e].stack[i].node.type = "AwaitExpression"}

\* C7: the promise an async user function returned is fulfilled only with
\* the value its call frame returned (undefined when the body ended without
\* a return) and only when no await of its body is left; in the nested
\* scenario at most two logs occur, the second f() is called only after the
\* promise of the first is fulfilled, and once nothing is left to run (and
\* nothing was aborted) there are exactly two logs and wait() is resolved.
C7_AsyncResolvesWithReturn ==
  /\ \A e \in AsyncCalls :
       LET p == promises[executions[e].promise] IN
       /\ p.st = "fulfilled" \/ (p.locked /\ p.st # "rejected")
            => /\ executions[e].hasReturned
               /\ executions[e].awaitingPromise = 0
               /\ AwaitFrames(e) = {}
       /\ p.st = "fulfilled" => p.val = executions[e].retValue
       /\ p.st = "fulfilled" /\ funcs # <<>> /\ funcs[1].name \in {"f", "g"} => p.val = Undef
       /\ p.st = "fulfilled" /\ funcs # <<>> /\ funcs[1].name = "h" => p.val = Num(1)
  /\ Nested =>
       /\ Len(log) <= 2
       /\ \A i \in DOMAIN log : log[i] = <<Str("hi")>>
       /\ Len(executions) >= 4 => promises[executions[3].promise].st = "fulfilled"
       /\ Len(executions) <= 4
       /\ Idle /\ timers = {} /\ NoAbort /\ WaitDrivers # {}
            => /\ Len(log) = 2
               /\ \A d \in WaitDrivers : promises[drivers[d].p].st = "fulfilled"
\* the nested scenario has run to its end under wait()
C7_Witness ==
  /\ Nested
  /\ Len(log) = 2
  /\ Len(executions) = 4
  /\ \A e \in AsyncCalls : promises[executions[e].promise].st = "fulfilled"
  /\ \E d \in WaitDrivers : promises[drivers[d].p].st = "fulfilled"

\* C8: the promise an async user function returned is an observable promise:
\* isPromiseWithState holds of it, and its state is Pending as long as the
\* function's execution has not finished.
C8_AsyncCallReturnsObservable ==
  \A e \in AsyncCalls :
    /\ isPromiseWithState(M, PromiseV(executions[e].promise))
    /\ ~executions[e].hasReturned
         => promises[executions[e].promise].state.type = "Pending"

FrameProgress(e) ==
  \/ Len(executions'[e].stack) # Len(executions[e].stack)
  \/ /\ executions[e].stack # <<>>
     /\ LET top == Top(M, e)
            top2 == executions'[e].stack[Len(executions'[e].stack)]
        IN \/ top2.index # top.index
           \/ top2.subIndex # top.subIndex
           \/ top2.state # top.state
SetsAwaitingPromise(e) ==
  /\ executions[e].awaitingPromise = 0
  /\ executions'[e].awaitingPromise # 0
PollsPending(e) ==
  /\ Polling(e)
  /\ executions[e].awaitingPromise # 0
  /\ ObservedState(e).type = "Pending"

\* C9, as stated: every step() of an execution with a non-empty stack that
\* returns without throwing changes stack.length, top.index, top.subIndex or
\* top.state, or sets awaitingPromise, an AwaitExpression in its polling
\* phase included.
C9_EveryStepProgresses ==
  [][\A e \in DOMAIN executions :
       StepEnds(e) /\ executions[e].stack # <<>>
         => FrameProgress(e) \/ SetsAwaitingPromise(e)]_vars

\* C9, amended: every step() of an execution with a non-empty stack that
\* returns without throwing changes stack.length, top.index, top.subIndex or
\* top.state, or sets awaitingPromise, except the step() of an
\* AwaitExpression in its polling phase whose promise is still Pending: that
\* step returns and leaves the execution exactly as it was.
C9_EveryStepProgressesButPolling ==
  [][\A e \in DOMAIN executions :
       /\ StepEnds(e) /\ executions[e].stack # <<>> /\ ~PollsPending(e)
            => FrameProgress(e) \/ SetsAwaitingPromise(e)
       /\ StepCalled(e) /\ PollsPending(e)
            => /\ StepEnds(e)
               /\ executions'[e] = executions[e]]_vars
\* the host has just stepped an execution parked on a pending promise, and
\* the step left it as it was
C9_Witness ==
  /\ stepped.idle
  /\ stepped.e \in DOMAIN executions
  /\ Polling(stepped.e)
  /\ executions[stepped.e].awaitingPromise # 0
  /\ ObservedState(stepped.e).type = "Pending"

AwaitingOnlyWhenPolling ==
  \A e \in DOMAIN executions : executions[e].awaitingPromise # 0 => Polling(e)

\* C10: awaitingPromise is set only while the top frame is an AwaitExpression
\* in its polling phase (subIndex 2); the step() that finds the promise
\* settled sets it to null and pops the frame or throws, and no step() that
\* pops a frame or throws leaves it set.
C10_AwaitingPromiseOnlyWhilePolling ==
  /\ []AwaitingOnlyWhenPolling
  /\ [][\A e \in DOMAIN executions :
          /\ StepCalled(e) /\ executions[e].awaitingPromise # 0
               /\ ObservedState(e).type # "Pending"
               => /\ executions'[e].awaitingPromise = 0
                  /\ \/ thrown'.on
                     \/ Len(executions'[e].stack) < Len(executions[e].stack)
          /\ StepCalled(e)
               /\ (thrown'.on \/ Len(executions'[e].stack) < Len(executions[e].stack))
               => executions'[e].awaitingPromise = 0
          /\ executions[e].awaitingPromise # 0 /\ executions'[e].awaitingPromise # 0
               => executions'[e].stack = executions[e].stack]_vars
\* a step() found the awaited promise rejected: it has thrown the error and
\* awaitingPromise is null again
C10_Witness ==
  \E e \in DOMAIN executions :
    /\ thrown = Some(ErrorV("rejected"))
    /\ Polling(e)
    /\ executions[e].awaitingPromise = 0
    /\ stepped.e = e

\* C11: a step() that throws unwinds the frames of its execution: the stack
\* of the execution is empty after the throw.
C11_ThrowEmptiesStack ==
  [][\A e \in DOMAIN executions :
       StepCalled(e) /\ thrown'.on => executions'[e].stack = <<>>]_vars

\* C12: an execution that has terminated normally has an empty stack, a
\* sub-execution whose call frame delivered its return value included.
C12_ReturnedMeansEmptyStack ==
  \A e \in DOMAIN executions :
    executions[e].hasReturned => executions[e].stack = <<>>

Observable == {p \in DOMAIN promises : promises[p].hasState}

\* C13: the state of a promise made by withState is Pending as long as the
\* promise is, a state that is not Pending is the way the promise settled,
\* and a state that is no longer Pending never changes again, whatever
\* resolve, reject and abort() calls follow.
C13_StateChangesAtMostOnce ==
  /\ [](\A p \in Observable :
          LET pr == promises[p] IN
          /\ pr.st = "pending" => pr.state = Pending
          /\ pr.state.type = "Fulfilled" => pr.st = "fulfilled" /\ pr.state.value = pr.val
          /\ pr.state.type = "Rejected"
               => pr.st = "rejected" /\ pr.state.error = pr.val /\ pr.val # kAbort
          /\ pr.state.type = "Aborted" => pr.st = "rejected" /\ pr.val = kAbort)
  /\ [][\A p \in Observable :
          promises[p].state # Pending => promises'[p].state = promises[p].state]_vars
\* abort() was called on a promise that had been rejected: its state is
\* still Rejected
C13_Witness ==
  \E p \in Observable :
    /\ promises[p].state = Rejected(ErrorV("rejected"))
    /\ promises[p].aborted

\* C14: abort() on an observable promise whose state is Fulfilled, Rejected
\* or Aborted changes neither the state nor the way the promise settled and
\* queues no job, and a second abort() changes nothing the first one left.
C14_AbortIsIdempotent ==
  \A p \in DOMAIN promises :
    promises[p].abortable =>
      LET m1 == abort(M, p) IN
      /\ promises[p].hasState /\ promises[p].state # Pending
           => /\ m1.promises[p].state = promises[p].state
              /\ m1.promises[p].st = promises[p].st
              /\ m1.promises[p].val = promises[p].val
              /\ m1.microtasks = microtasks
      /\ abort(m1, p) = m1
\* abort() was called on a promise that had been fulfilled: its state is
\* still Fulfilled with the value
C14_Witness ==
  \E p \in Observable :
    /\ promises[p].state = Fulfilled(Str("value"))
    /\ promises[p].aborted

\* the program the first root execution runs
Runs(prog) == executions # <<>> /\ executions[1].rootNode = prog
UninitializedRead == ErrorV("has not been initialized")

\* C15: the program `log(a); let a = 1` ends with the error of a read of an
\* uninitialized variable: wait() is rejected with it, and log is never
\* called.
C15_ReadBeforeLetIsUninitializedRead ==
  Runs(ProgReadBeforeLet) =>
    /\ log = <<>>
    /\ thrown.on => thrown.v = UninitializedRead
    /\ \A d \in WaitDrivers :
         /\ promises[drivers[d].p].st # "fulfilled"
         /\ promises[drivers[d].p].st = "rejected"
              => promises[drivers[d].p].val = UninitializedRead

\* the frames of VariableDeclarations whose initializer is being evaluated
Initializing(e) ==
  {i \in 1..(Len(executions[e].stack) - 1) :
     executions[e].stack[i].node.type = "VariableDeclaration"}
DeclaredName(frame) == frame.node.declarations[frame.index + 1].id.name
TopIs(e, types) ==
  /\ executions[e].stack # <<>>
  /\ Top(M, e).node.type \in types

\* C16: while the initializer of a declarator x is evaluated the scope of
\* the declaration holds kUninitialized for x; a step() of an Identifier,
\* read or assignment target, that resolves to kUninitialized throws the
\* error of an uninitialized read; the step() after the initializer returned
\* stores its value in x.
C16_UninitializedUntilInitialized ==
  /\ [](\A e \in DOMAIN executions : \A i \in Initializing(e) :
          LET frame == executions[e].stack[i] IN
          scopes[frame.scope].vars[DeclaredName(frame)] = kUninitialized)
  /\ [][\A e \in DOMAIN executions :
          /\ StepCalled(e) /\ TopIs(e, {"Identifier"}) /\ Top(M, e).role # "key"
               /\ resolve(M, Top(M, e).node.name, Top(M, e).scope) # 0
               /\ scopes[resolve(M, Top(M, e).node.name, Top(M, e).scope)]
                    .vars[Top(M, e).node.name] = kUninitialized
               => /\ thrown' = Some(UninitializedRead)
                  /\ executions'[e] = executions[e]
                  /\ scopes' = scopes
          /\ StepCalled(e) /\ TopIs(e, {"VariableDeclaration"})
               /\ Top(M, e).subIndex = 1
               => scopes'[Top(M, e).scope].vars[DeclaredName(Top(M, e))] = Top(M, e).state]_vars
\* the assignment inside `let a = (a = 1)` has thrown when it resolved its
\* target a
C16_Witness ==
  /\ Runs(ProgSelfAssign)
  /\ thrown = Some(UninitializedRead)
  /\ TopIs(1, {"Identifier"})
  /\ Top(M, 1).role = "left"

ShortCircuits(operator, lhs) ==
  \/ operator = "&&" /\ ~Truthy(lhs)
  \/ operator = "||" /\ Truthy(lhs)
  \/ operator = "??" /\ ~Nullish(lhs)
\* the frames of logical expressions that have a child frame
Operating(e) ==
  {i \in 1..(Len(executions[e].stack) - 1) :
     executions[e].stack[i].node.type = "LogicalExpression"}
LeftValue(left) == IF left.type = "NullLiteral" THEN Null ELSE left.value

\* C17: the frame of `a && b`, `a || b` or `a ?? b` pushes its right operand
\* only after the left one returned, only when the left value does not
\* short-circuit, and once; when the left value short-circuits the step()
\* returns it and no frame for the right operand exists at any time.
C17_ShortCircuit ==
  /\ [](\A e \in DOMAIN executions : \A i \in Operating(e) :
          LET frame == executions[e].stack[i]
              child == executions[e].stack[i + 1]
          IN /\ frame.subIndex \in {0, 1}
             /\ frame.subIndex = 0 => child.node = frame.node.left
             /\ frame.subIndex = 1
                  => /\ child.node = frame.node.right
                     /\ "lhs" \in DOMAIN frame.state.f
                     /\ ~ShortCircuits(frame.node.operator, frame.state.f["lhs"]))
  /\ [][\A e \in DOMAIN executions :
          StepCalled(e) /\ TopIs(e, {"LogicalExpression"}) =>
            LET frame == Top(M, e)
                stack == executions[e].stack
                stack2 == executions'[e].stack
            IN /\ frame.subIndex = 1
                    /\ ShortCircuits(frame.node.operator, frame.state.f["lhs"])
                    => stack2 = ret(M, e, frame.state.f["lhs"]).executions[e].stack
               /\ frame.subIndex = 1
                    /\ ~ShortCircuits(frame.node.operator, frame.state.f["lhs"])
                    => /\ Len(stack2) = Len(stack) + 1
                       /\ SubSeq(stack2, 1, Len(stack)) = stack
                       /\ stack2[Len(stack2)].node = frame.node.right
               /\ frame.subIndex = 2
                    => stack2 = ret(M, e, frame.state.f["rhs"]).executions[e].stack]_vars
  /\ [](\A operator \in LogicalOperators : \A left \in LeftOperands :
          Runs(ProgLogical(operator, left)) =>
            IF ShortCircuits(operator, LeftValue(left))
            THEN log \in {<<>>, <<<<LeftValue(left)>>>>}
            ELSE log \in {<<>>, <<<<Num(7)>>>>, <<<<Num(7)>>, <<Undef>>>>})
\* a logical expression has returned its left value without a call of the
\* right operand
C17_Witness ==
  \E operator \in LogicalOperators : \E left \in LeftOperands :
    /\ Runs(ProgLogical(operator, left))
    /\ ShortCircuits(operator, LeftValue(left))
    /\ log = <<<<LeftValue(left)>>>>
    /\ executions[1].stack = <<>>

CallTypes == {"CallExpression", "OptionalCallExpression", "NewExpression"}
\* the frames of calls that have a child frame
Calling(e) ==
  {i \in 1..(Len(executions[e].stack) - 1) : executions[e].stack[i].node.type \in CallTypes}
OrderLog == <<<<Num(1)>>, <<Num(2)>>, <<Num(3)>>, <<Obj(Empty), Undef>>>>
Prefixes(sequence) == {SubSeq(sequence, 1, n) : n \in 0..Len(sequence)}

\* C18: the child frame of a call frame is argument number index while
\* index arguments have returned, and the callee once all of them have; the
\* function is invoked only by the step() of a call frame that holds every
\* argument's value and the callee; so the side effects of the arguments
\* occur in source order, before the callee is resolved.
C18_ArgumentsThenCalleeThenCall ==
  /\ [](\A e \in DOMAIN executions : \A i \in Calling(e) :
          LET frame == executions[e].stack[i]
              child == executions[e].stack[i + 1]
              arguments == frame.node.arguments
          IN /\ frame.subIndex = 0
             /\ frame.index <= Len(arguments)
             /\ Len(frame.state.f["args"].a) = frame.index
             /\ "callee" \notin DOMAIN frame.state.f
             /\ frame.index < Len(arguments) => child.node = arguments[frame.index + 1]
             /\ frame.index = Len(arguments)
                  => child.node = frame.node.callee /\ child.role = "callee")
  /\ [][\A e \in DOMAIN executions :
          /\ StepCalled(e)
               /\ (Len(log') > Len(log) \/ Len(executions') > Len(executions))
               => /\ TopIs(e, CallTypes)
                  /\ Top(M, e).index = Len(Top(M, e).node.arguments)
                  /\ Top(M, e).subIndex = 1
                  /\ "callee" \in DOMAIN Top(M, e).state.f
                  /\ Len(Top(M, e).state.f["args"].a) = Len(Top(M, e).node.arguments)
          /\ StepCalled(e) /\ TopIs(e, CallTypes) /\ ~thrown'.on
               /\ Top(M, e).index < Len(Top(M, e).node.arguments)
               /\ Top(M, e).subIndex = 1
               => LET top2 == executions'[e].stack[Len(executions'[e].stack)] IN
                  /\ top2.index = Top(M, e).index + 1
                  /\ top2.state.f["args"].a =
                       Append(Top(M, e).state.f["args"].a, Top(M, e).state.f["currentArg"])]_vars
  /\ [](/\ Runs(ProgOrder) => log \in Prefixes(OrderLog)
        /\ Runs(ProgCalleeLast) /\ thrown.on
             => log = <<<<Num(1)>>>> /\ thrown.v = ErrorV("is not defined"))
\* log(new k(log(1), log(2)), log(3)) has made its four calls, in this order
C18_Witness ==
  /\ Runs(ProgOrder)
  /\ log = OrderLog
  /\ executions[1].stack = <<>>

\* C19: the Promise.all fan-out program logs 1, 2, 3 in this order and its
\* wait() is resolved: no step() of it throws, and once the host has nothing
\* left to run after wait() was called, the three logs are there.
C19_FanOutLogsInOrder ==
  Runs(ProgFanOut) =>
    /\ ~thrown.on
    /\ \A d \in WaitDrivers : promises[drivers[d].p].st # "rejected"
    /\ Idle /\ timers = {} /\ WaitDrivers # {}
         => /\ log = <<<<Num(1)>>, <<Num(2)>>, <<Num(3)>>>>
            /\ \A d \in WaitDrivers : promises[drivers[d].p].st = "fulfilled"

FunctionTypes == {"FunctionExpression", "ArrowFunctionExpression"}
ClosureLog == <<<<Num(2)>>, <<Num(3)>>>>
Holding(name) == {scope \in DOMAIN scopes : name \in DOMAIN scopes[scope].vars}

\* C20: a user function keeps the scope of the frame that defines it, and a
\* call of it runs in a new scope whose parent is that very scope: a
\* variable reassigned between the definition and the call is read with its
\* new value, and an assignment in the body writes the variable of the
\* defining scope.
C20_ClosureByReference ==
  /\ [][\A e \in DOMAIN executions :
          StepCalled(e) /\ TopIs(e, FunctionTypes)
            => /\ Len(funcs') = Len(funcs) + 1
               /\ funcs'[Len(funcs')].scope = Top(M, e).scope
               /\ scopes' = scopes]_vars
  /\ [](\A e \in DOMAIN executions :
          ~executions[e].root
            => \E f \in DOMAIN funcs :
                 /\ funcs[f].node.body = executions[e].rootNode
                 /\ scopes[executions[e].rootScope].parent = funcs[f].scope)
  /\ [](Runs(ProgClosure) =>
          /\ log \in Prefixes(ClosureLog)
          /\ Cardinality(Holding("v")) <= 1
          /\ executions[1].stack = <<>>
               => /\ log = ClosureLog
                  /\ \A scope \in Holding("v") : scopes[scope].vars["v"] = Num(3))
\* the closure program has run: k() read 2, and the 3 that s() assigned is
\* in the defining scope
C20_Witness ==
  /\ Runs(ProgClosure)
  /\ log = ClosureLog
  /\ executions[1].stack = <<>>
  /\ \E scope \in Holding("v") : scopes[scope].vars["v"] = Num(3)

MemberTypes == {"MemberExpression", "OptionalMemberExpression"}
\* the object `o` of the program, once it is built
ThisObject ==
  IF Len(scopes) >= 2 /\ "o" \in DOMAIN scopes[2].vars THEN scopes[2].vars["o"] ELSE Undef
ThisLog == <<<<ThisObject>>, <<ThisObject>>, <<ThisObject>>, <<Undef>>>>
\* the execution a call made in this transition
Made == executions'[Len(executions')]

\* C21: a callee that is a member expression hands the call the object as
\* this and a callee that is an identifier hands it undefined; the scope a
\* call of a user function makes has a this of its own, the one the callee
\* handed over, unless the function is an arrow function, whose this is
\* looked up in the scopes of the frame that defined it.  So o.m() and o.n()
\* return o, f() with f = o.m returns undefined, an arrow function called in
\* o.a() returns o, and one called at the top level finds no this.
C21_ThisIsTheReceiver ==
  /\ [][\A e \in DOMAIN executions :
          /\ StepCalled(e) /\ ~thrown'.on /\ Top(M, e).role = "callee"
               /\ Len(executions'[e].stack) < Len(executions[e].stack)
               => LET callee == executions'[e].stack[Len(executions'[e].stack)].state.f["callee"].f
                  IN /\ TopIs(e, MemberTypes) =>
                          /\ callee["this"] = Top(M, e).state.f["object"]
                          /\ callee["function"] =
                               Get(Top(M, e).state.f["object"], Top(M, e).state.f["key"])
                     /\ TopIs(e, {"Identifier"}) => callee["this"] = Undef
          /\ StepCalled(e) /\ TopIs(e, {"CallExpression"})
               /\ Len(executions') > Len(executions)
               => LET callee == Top(M, e).state.f["callee"].f
                      fn == funcs[callee["function"].fid]
                      funcScope == scopes'[Made.rootScope]
                  IN /\ funcScope.parent = fn.scope
                     /\ fn.node.type # "ArrowFunctionExpression"
                          => "this" \in DOMAIN funcScope.vars
                             /\ funcScope.vars["this"] = callee["this"]
                     /\ fn.node.type = "ArrowFunctionExpression"
                          => "this" \notin DOMAIN funcScope.vars]_vars
  /\ [](Runs(ProgThis) =>
          /\ log # <<>> => log \in Prefixes(ThisLog)
          /\ thrown.on => log = ThisLog /\ thrown.v = ErrorV("is not defined"))
\* the four calls have logged o, o, o and undefined, and the arrow function
\* of the top level has found no this
C21_Witness ==
  /\ Runs(ProgThis)
  /\ log = ThisLog
  /\ thrown = Some(ErrorV("is not defined"))

\* what tells one execution from another: none of it is ever assigned again
Fixed(x) == <<x.rootNode, x.rootScope, x.root, x.runtime, x.id>>
\* a step() of execution e calls a user function in this transition
Invokes(e) ==
  /\ StepCalled(e)
  /\ TopIs(e, CallTypes)
  /\ Top(M, e).index = Len(Top(M, e).node.arguments)
  /\ Top(M, e).subIndex = 1
  /\ Top(M, e).state.f["callee"].f["function"].t = "function"
\* execute is called in this transition
Executes == ui.state = "idle" /\ ui'.state = "waiting"

\* C22: the list of executions changes only by one execution appended at its
\* end, which happens exactly when execute is called or a step() calls a
\* user function; the entries it holds stay the executions they were, in
\* the same places; so in the list of each runtime the id of the execution
\* at place i is i - 1, and no two executions of a runtime have the same id.
C22_ExecutionsOnlyGrow ==
  /\ [][/\ Len(executions') \in {Len(executions), Len(executions) + 1}
        /\ \A e \in DOMAIN executions : Fixed(executions'[e]) = Fixed(executions[e])
        /\ Len(executions') = Len(executions) + 1
             <=> Executes \/ \E e \in DOMAIN executions : Invokes(e)
        /\ Len(executions') = Len(executions) + 1
             => /\ Made.runtime = runtime'
                /\ Made.id = Len(RuntimeExecutions(M, runtime'))]_vars
  /\ [](\A r \in 1..runtime :
          LET list == RuntimeExecutions(M, r) IN
          \A i \in DOMAIN list : list[i].id = i - 1)
\* the nested scenario has run: the list holds the root execution and the
\* executions of g, f and f, the first three of them finished
C22_Witness ==
  /\ Runs(ProgNested)
  /\ Len(executions) = 4
  /\ \A e \in 1..4 : executions[e].id = e - 1
  /\ \A e \in 1..3 : executions[e].hasReturned \/ executions[e].stack = <<>>
  /\ log # <<>>

\* C23: every execution in the list of the runtime has frames left on its
\* stack.
C23_ListedExecutionsAreLive ==
  \A e \in DOMAIN executions :
    executions[e].runtime = runtime => executions[e].stack # <<>>

\* the execution that executeCode made for the run that is going on
RunExecution ==
  CHOOSE e \in DOMAIN executions : executions[e].root /\ executions[e].runtime = runtime

\* C24: on the demo page, when the execution of a run has finished or a
\* step() of it has thrown while the state is waiting, the state is
\* eventually idle again.
C24_UiReturnsToIdle ==
  (/\ ui.state = "waiting"
   /\ thrown.on \/ executions[RunExecution].stack = <<>>)
    ~> (ui.state = "idle")

LiteralTypes == {"NumericLiteral", "StringLiteral"}
\* what an onRet may leave in the state of the frame it is called with
Delivered(onRet, node, before, after) ==
  CASE onRet.k \in {"discard", "bodyFrame"} -> after = before
    [] onRet.k = "asState" -> node.type \in LiteralTypes => after = node.value
    [] onRet.k = "asStateProp" ->
         /\ after.t = "object"
         /\ onRet.prop \in DOMAIN after.f
         /\ node.type \in LiteralTypes => after.f[onRet.prop] = node.value
         /\ \A k \in DOMAIN after.f \ {onRet.prop} :
              before.t = "object" /\ k \in DOMAIN before.f /\ after.f[k] = before.f[k]
         /\ before.t = "object" => DOMAIN before.f \subseteq DOMAIN after.f
\* frame `below` as ret(value) of frame `popped` leaves it
Returned(below, after, popped) ==
  /\ after.subIndex = below.subIndex + 1
  /\ [after EXCEPT !.subIndex = below.subIndex, !.state = below.state] = below
  /\ Delivered(popped.onRet, popped.node, below.state, after.state)
\* a loop frame as a ContinueStatement leaves it
Continued(below, after) ==
  /\ isLoop(below.node)
  /\ [after EXCEPT !.subIndex = below.subIndex, !.index = below.index] = below
  /\ after.subIndex = 0
Unwinding == {"ReturnStatement", "BreakStatement", "ContinueStatement"}

\* C25: a stack changes by one frame pushed, by its top frame changed, or by
\* frames popped; more than one frame is popped only by return, break and
\* continue; the frames below the lower of the two tops stay as they are;
\* and the frame that becomes the top when frames are popped has its
\* subIndex one higher, its state as the onRet of the frame popped from it
\* leaves it (discard: as it was; asState: the value; asStateProp: the value
\* in one property, the others as they were) and no other field changed,
\* unless a continue reset it.  The body frame of a user function hands its
\* value to the call, and nothing else does.
C25_RetPopsAndDelivers ==
  [][\A e \in DOMAIN executions :
       LET old == executions[e].stack
           new == executions'[e].stack
       IN /\ old # new =>
               /\ old # <<>>
               /\ Len(new) <= Len(old) + 1
               /\ \A i \in DOMAIN new : i < Len(new) /\ i < Len(old) => new[i] = old[i]
               /\ Len(new) < Len(old) - 1 => Top(M, e).node.type \in Unwinding
               /\ Len(new) < Len(old) /\ new # <<>> =>
                    \/ Returned(old[Len(new)], new[Len(new)], old[Len(new) + 1])
                    \/ /\ Top(M, e).node.type = "ContinueStatement"
                       /\ Continued(old[Len(new)], new[Len(new)])
          /\ <<executions'[e].hasReturned, executions'[e].retValue>>
               # <<executions[e].hasReturned, executions[e].retValue>>
               => /\ Len(new) < Len(old)
                  /\ old[Len(new) + 1].onRet = bodyRet
                  /\ executions'[e].hasReturned]_vars
\* the two operands of 1 + 2 < 4 have returned to the frame of `<`: its
\* subIndex is 2 and its state holds both values
C25_Witness ==
  /\ Runs(ProgBinary)
  /\ executions[1].stack # <<>>
  /\ Top(M, 1).node.type = "BinaryExpression"
  /\ Top(M, 1).node.operator = "<"
  /\ Top(M, 1).subIndex = 2
  /\ Top(M, 1).state = Obj(Put(Put(Empty, "lhs", Num(3)), "rhs", Num(4)))

\* the highest of the frames of execution e that satisfy Is (0: none)
Highest(e, Is(_)) ==
  LET is == {i \in DOMAIN executions[e].stack : Is(executions[e].stack[i])} IN
  IF is = {} THEN 0 ELSE CHOOSE i \in is : \A j \in is : j <= i
IsCall(frame) == frame.role = "call"
IsLoopFrame(frame) == isLoop(frame.node)
ReturnLog == <<<<Num(5)>>, <<Undef>>>>

\* C26: the step of a return statement whose argument has returned (or
\* that has none, one step after it was pushed) leaves on the stack only the
\* frames below the highest frame of role 'call', whatever loops, blocks and
\* ifs lay above it, and hands the argument's value, or undefined, to the
\* call; an execution that has returned is never stepped again, so that
\* r() is 5 and u() undefined, and nothing that follows a return is logged.
C26_ReturnUnwindsToCall ==
  /\ [][\A e \in DOMAIN executions :
          /\ StepCalled(e) /\ TopIs(e, {"ReturnStatement"}) /\ Top(M, e).subIndex = 1
               /\ Highest(e, IsCall) > 0
               => /\ Len(executions'[e].stack) = Highest(e, IsCall) - 1
                  /\ executions'[e].hasReturned
                  /\ executions'[e].retValue = Top(M, e).state
                  /\ Top(M, e).node.argument = NoNode => executions'[e].retValue = Undef
                  /\ ~thrown'.on
          /\ StepCalled(e) /\ TopIs(e, {"ReturnStatement"}) /\ Top(M, e).subIndex = 0
               /\ Top(M, e).node.argument = NoNode
               => executions'[e].stack =
                    [executions[e].stack EXCEPT ![Len(executions[e].stack)].subIndex = 1]
          /\ executions[e].hasReturned => ~StepCalled(e)]_vars
  /\ [](Runs(ProgReturnNested) => log \in Prefixes(ReturnLog))
\* r() has returned 5 out of an if in a for loop and u() undefined out of a
\* while loop
C26_Witness ==
  /\ Runs(ProgReturnNested)
  /\ log = ReturnLog
  /\ executions[1].stack = <<>>
  /\ \A e \in {2, 3} : executions[e].hasReturned /\ Len(executions[e].stack) = 1

BreakLog == <<<<Num(1)>>, <<Num(9)>>, <<Num(8)>>, <<Num(7)>>>>

\* C27: the step of a break statement leaves on the stack only the frames
\* below the highest loop frame, in one step, and the frame that was below
\* the loop has its subIndex one higher and nothing else changed; so the
\* loop is not stepped again: the while loop logs 1 and stops at 2, and the
\* break of the inner do-while loop leaves the for loop around it running.
C27_BreakLeavesTheLoop ==
  /\ [][\A e \in DOMAIN executions :
          StepCalled(e) /\ TopIs(e, {"BreakStatement"}) /\ Highest(e, IsLoopFrame) > 0
            => LET loop == Highest(e, IsLoopFrame)
                   old == executions[e].stack
               IN /\ ~thrown'.on
                  /\ Len(executions'[e].stack) = loop - 1
                  /\ loop > 1 =>
                       executions'[e].stack =
                         [SubSeq(old, 1, loop - 1) EXCEPT ![loop - 1].subIndex = @ + 1]]_vars
  /\ [](Runs(ProgBreak) => log \in Prefixes(BreakLog))
\* both loops of the program were left by break
C27_Witness ==
  /\ Runs(ProgBreak)
  /\ log = BreakLog
  /\ executions[1].stack = <<>>

\* the stack of execution e after this transition, and its top frame
After(e) == executions'[e].stack
TopAfter(e) == After(e)[Len(After(e))]
\* the step pushes `node` on the stack of execution e, in scope `scope`
Pushes(e, node, scope) ==
  /\ Len(After(e)) = Len(executions[e].stack) + 1
  /\ TopAfter(e).node = node
  /\ TopAfter(e).scope = scope
\* the stack of execution e with its frames above place `loop` popped and
\* the loop frame set to (index, 0)
Reset(e, loop, index) ==
  [SubSeq(executions[e].stack, 1, loop) EXCEPT ![loop].subIndex = 0, ![loop].index = index]
\* a continue statement of execution e is stepped within a loop of these types
Continues(e, types) ==
  /\ StepCalled(e)
  /\ TopIs(e, {"ContinueStatement"})
  /\ Highest(e, IsLoopFrame) > 0
  /\ executions[e].stack[Highest(e, IsLoopFrame)].node.type \in types
InitScope(frame) == frame.state.f["initScope"].sid
ContinueLog == <<<<Num(0)>>, <<Num(2)>>, <<Num(1)>>, <<Num(3)>>>>

\* C28: the step of a continue statement pops the frames above the highest
\* loop frame and leaves that frame with subIndex 0 and index 3 (for) or 0
\* (while); a for frame at (3, 0) pushes its update, at (3, 1), the update
\* having returned, goes to (1, 0), and there pushes its test; a while frame
\* at (0, 0) pushes its test.  So the rest of the body is skipped: the for
\* loop logs 0 and 2, the while loop 1 and 3.
C28_ContinueGoesToUpdateOrTest ==
  /\ [][\A e \in DOMAIN executions :
          /\ Continues(e, {"ForStatement"})
               => ~thrown'.on /\ After(e) = Reset(e, Highest(e, IsLoopFrame), 3)
          /\ Continues(e, {"WhileStatement"})
               => ~thrown'.on /\ After(e) = Reset(e, Highest(e, IsLoopFrame), 0)
          /\ StepCalled(e) /\ TopIs(e, {"ForStatement"}) /\ Top(M, e).subIndex = 0
               /\ Top(M, e).index = 3 /\ Top(M, e).node.update # NoNode
               => Pushes(e, Top(M, e).node.update, InitScope(Top(M, e)))
          /\ StepCalled(e) /\ TopIs(e, {"ForStatement"}) /\ Top(M, e).subIndex = 1
               /\ Top(M, e).index = 3
               => After(e) = Reset(e, Len(executions[e].stack), 1)
          /\ StepCalled(e) /\ TopIs(e, {"ForStatement"}) /\ Top(M, e).subIndex = 0
               /\ Top(M, e).index = 1 /\ Top(M, e).node.test # NoNode
               => Pushes(e, Top(M, e).node.test, InitScope(Top(M, e)))
          /\ StepCalled(e) /\ TopIs(e, {"WhileStatement"}) /\ Top(M, e).subIndex = 0
               /\ Top(M, e).index = 0
               => Pushes(e, Top(M, e).node.test, Top(M, e).scope)]_vars
  /\ [](Runs(ProgContinue) => log \in Prefixes(ContinueLog))
\* both loops have run with one iteration cut short by continue
C28_Witness ==
  /\ Runs(ProgContinue)
  /\ log = ContinueLog
  /\ executions[1].stack = <<>>

\* the case that the switch of DoWhileStatement / WhileStatement selects:
\* 0 is the test, 1 the body
Phase(frame) == IF frame.node.type = "WhileStatement" THEN frame.index ELSE 1 - frame.index
\* a frame of a while or do-while loop at subIndex 0 is stepped
StepsLoop(e) ==
  /\ StepCalled(e)
  /\ TopIs(e, {"WhileStatement", "DoWhileStatement"})
  /\ Top(M, e).subIndex = 0

\* C29 as claimed: the step of a continue statement in a do-while loop
\* leaves the loop frame where its next step pushes the body; the program
\* then logs 3 twice.
C29_ContinueReentersBody ==
  /\ [][\A e \in DOMAIN executions :
          Continues(e, {"DoWhileStatement"})
            => Phase(TopAfter(e)) = 1 /\ TopAfter(e).subIndex = 0]_vars
  /\ [](Runs(ProgDoContinue) /\ executions[1].stack = <<>>
          => log = <<<<Num(3)>>, <<Num(3)>>>>)

\* C29: the step of a continue statement in a do-while loop pops the frames
\* above the loop frame and leaves it with subIndex 0 and index 1, where
\* its next step pushes the test: a loop frame at subIndex 0 pushes its test
\* in phase 0 and its body in phase 1.  The body is entered again only if
\* the test is truthy: the program leaves the loop with k = 2, logging
\* nothing in it.
C29_ContinueGoesToTest ==
  /\ [][\A e \in DOMAIN executions :
          /\ Continues(e, {"DoWhileStatement"})
               => /\ ~thrown'.on
                  /\ After(e) = Reset(e, Highest(e, IsLoopFrame), 1)
                  /\ Phase(TopAfter(e)) = 0
          /\ StepsLoop(e)
               => Pushes(e, IF Phase(Top(M, e)) = 0 THEN Top(M, e).node.test
                            ELSE Top(M, e).node.body,
                         Top(M, e).scope)]_vars
  /\ [](Runs(ProgDoContinue) =>
          /\ log \in Prefixes(<<<<Num(2)>>>>)
          /\ executions[1].stack = <<>> => log = <<<<Num(2)>>>>)
\* the do-while loop was left after two iterations, both cut short by
\* continue
C29_Witness ==
  /\ Runs(ProgDoContinue)
  /\ log = <<<<Num(2)>>>>
  /\ executions[1].stack = <<>>

\* C30: the body of a for statement is pushed in a new scope with no
\* bindings of its own whose parent is the init scope; so i = 5 in the body
\* is seen by the update and the test, and the loop logs 0 and ends.
C30_BodyScopeInheritsInitScope ==
  /\ [][\A e \in DOMAIN executions :
          StepCalled(e) /\ TopIs(e, {"ForStatement"}) /\ ~thrown'.on
            /\ Len(After(e)) = Len(executions[e].stack) + 1
            /\ TopAfter(e).node = Top(M, e).node.body
            => /\ TopAfter(e).scope > Len(scopes)
               /\ scopes'[TopAfter(e).scope].parent = InitScope(After(e)[Len(After(e)) - 1])]_vars
  /\ [](Runs(ProgForScope) => log \in Prefixes(<<<<Num(0)>>>>))

\* what ProgFor(init, test, update) logs: init, then test, body and update
\* in turn; the test ends the loop when i is 2, the break when i is 3
ForLog(init, test, update) ==
  LET I == IF init THEN <<<<Num(10)>>>> ELSE <<>>
      U == IF update THEN <<<<Num(13)>>>> ELSE <<>>
      B == <<<<Num(12)>>>>
      T == <<<<Num(11)>>>>
  IN I \o (IF test THEN T \o B \o U \o T \o B \o U \o T
                  ELSE B \o U \o B \o U \o B) \o <<<<Num(14)>>>>
\* the test of the for statement of this frame has returned
TestReturned(frame) ==
  /\ frame.node.test # NoNode
  /\ frame.subIndex = 1
  /\ frame.index = 1 \/ (frame.index = 0 /\ frame.node.init = NoNode)
\* the frame of a for statement is stepped and step() returns
StepsFor(e) == StepCalled(e) /\ TopIs(e, {"ForStatement"}) /\ ~thrown'.on

\* C31: with init, test and update each present or absent, a for statement
\* evaluates init once and first (on the first step of its frame, and on
\* no other), then test, body and update in turn, an absent test counting
\* as truthy; the step of the loop frame pops the frame exactly when a
\* test has returned a falsy value.
C31_ForPhases ==
  /\ [][\A e \in DOMAIN executions :
          StepsFor(e) =>
            /\ Len(After(e)) < Len(executions[e].stack)
                  <=> TestReturned(Top(M, e)) /\ ~Truthy(Test(Top(M, e)))
            /\ Nullish(Top(M, e).state) /\ Top(M, e).node.init # NoNode
                  => Pushes(e, Top(M, e).node.init, InitScope(After(e)[Len(After(e)) - 1]))
            /\ ~Nullish(Top(M, e).state) /\ Len(After(e)) > Len(executions[e].stack)
                  => TopAfter(e).node \in {Top(M, e).node.test, Top(M, e).node.body,
                                           Top(M, e).node.update} \ {NoNode}]_vars
  /\ [](\A init \in BOOLEAN, test \in BOOLEAN, update \in BOOLEAN :
          Runs(ProgFor(init, test, update)) =>
            /\ ~thrown.on
            /\ log \in Prefixes(ForLog(init, test, update))
            /\ executions[1].stack = <<>> => log = ForLog(init, test, update))
\* a loop without init and test, left by break in its third iteration
C31_Witness ==
  /\ Runs(ProgFor(FALSE, FALSE, TRUE))
  /\ log = ForLog(FALSE, FALSE, TRUE)
  /\ executions[1].stack = <<>>

\* what ProgLoop(do, start) logs
LoopLog(do, start) ==
  LET B == <<<<Num(22)>>>>
      T == <<<<Num(21)>>>>
      E == <<<<Num(23)>>>>
  IN CASE ~do /\ start = 0 -> T \o B \o T \o B \o T \o E
       [] ~do /\ start = 5 -> T \o E
       [] do /\ start = 0 -> B \o T \o B \o T \o E
       [] do /\ start = 5 -> B \o T \o E
\* the frame of a while or do-while statement is stepped and step() returns
StepsWhile(e) ==
  StepCalled(e) /\ TopIs(e, {"WhileStatement", "DoWhileStatement"}) /\ ~thrown'.on

\* C32: the first step of a while frame pushes its test and the first step
\* of a do-while frame its body; in both, a test that returned truthy is
\* followed by the body and a body that returned by the test, and the step
\* of the loop frame pops the frame exactly when the test has returned a
\* falsy value.
C32_TestAndBodyAlternate ==
  /\ [][\A e \in DOMAIN executions :
          StepsWhile(e) =>
            LET frame == Top(M, e) IN
            /\ Len(After(e)) < Len(executions[e].stack)
                  <=> Phase(frame) = 0 /\ frame.subIndex = 1 /\ ~Truthy(Test(frame))
            /\ Nullish(frame.state)
                  => Pushes(e, IF frame.node.type = "WhileStatement" THEN frame.node.test
                               ELSE frame.node.body, frame.scope)
            /\ Phase(frame) = 0 /\ frame.subIndex = 1 /\ Truthy(Test(frame))
                  => Pushes(e, frame.node.body, frame.scope)
            /\ Phase(frame) = 1 /\ frame.subIndex = 1
                  => /\ Len(After(e)) = Len(executions[e].stack)
                     /\ Phase(TopAfter(e)) = 0
                     /\ TopAfter(e).subIndex = 0
            /\ Phase(frame) = 0 /\ frame.subIndex = 0
                  => Pushes(e, frame.node.test, frame.scope)]_vars
  /\ [](\A do \in BOOLEAN, start \in Starts :
          Runs(ProgLoop(do, start)) =>
            /\ ~thrown.on
            /\ log \in Prefixes(LoopLog(do, start))
            /\ executions[1].stack = <<>> => log = LoopLog(do, start))
\* a do-while loop whose test is falsy from the start has run its body once
C32_Witness ==
  /\ Runs(ProgLoop(TRUE, 5))
  /\ log = LoopLog(TRUE, 5)
  /\ executions[1].stack = <<>>

\* an await frame of execution e whose argument has returned a value that
\* is not a promise is stepped, no promise being awaited
AwaitsValue(e) ==
  /\ StepCalled(e)
  /\ TopIs(e, {"AwaitExpression"})
  /\ Top(M, e).subIndex = 1
  /\ Top(M, e).state.t # "promise"
  /\ executions[e].awaitingPromise = 0

PendingAwait(e) ==
  /\ executions[e].awaitingPromise # 0
  /\ promises[executions[e].awaitingPromise].state.type = "Pending"
\* next of a start()/wait() driver calls step() on execution e
DriverSteps(e) ==
  /\ StepCalled(e)
  /\ callStack # <<>>
  /\ TopAct(M).k = "driver"
\* the running driver was called by the reaction of the promise it parked on
Resumed == TopAct(M).ctx = "microtask"

Spread(before, after) ==
  Arr((IF before THEN <<Num(1)>> ELSE <<>>) \o <<Num(2), Num(3)>>
      \o (IF after THEN <<Num(4)>> ELSE <<>>))

\* C35: an array expression without holes whose elements are plain
\* elements and spreads yields the values in source order, each spread
\* replaced by its items: log([1, ...[2, 3], 4]) logs [1, 2, 3, 4], of
\* length 4, and likewise without the 1, the 4 or both.
C35_SpreadConcatenates ==
  \A before \in BOOLEAN, after \in BOOLEAN :
    Runs(ProgSpread(before, after)) =>
      /\ ~thrown.on
      /\ log \in {<<>>, <<<<Spread(before, after)>>>>}

\* step() is called on execution e, whose stack is empty
StepsEmpty(e) == StepCalled(e) /\ executions[e].stack = <<>>

\* C36: step() on an execution with an empty stack throws the error
\* 'Execution stack is empty' and changes nothing: the executions (their
\* stacks, awaitingPromise and results), scopes, promises, jobs and log
\* are as before.
C36_StepOnEmptyStackThrows ==
  [][\A e \in DOMAIN executions :
       StepsEmpty(e) =>
         /\ thrown' = Some(ErrorV("Execution stack is empty"))
         /\ executions' = executions
         /\ scopes' = scopes
         /\ promises' = promises
         /\ funcs' = funcs
         /\ microtasks' = microtasks
         /\ log' = log]_vars
\* the host has called step() on a finished execution
C36_Witness ==
  /\ thrown = Some(ErrorV("Execution stack is empty"))
  /\ stepped.e \in DOMAIN executions
  /\ executions[stepped.e].stack = <<>>

\* an exception thrown by a step of the sub-execution of an async function
\* leaves the pump of that function
AsyncPumpThrows ==
  /\ callStack # <<>>
  /\ thrown.on
  /\ TopAct(M).k = "asyncPump"
  /\ callStack' # callStack

\* C37: when a step of the sub-execution of an async function throws, in
\* the first run of the function or in a run resumed after an await, the
\* promise the call returned is rejected with the error.
C37_AsyncThrowRejects ==
  [][AsyncPumpThrows =>
       /\ promises'[TopAct(M).p].st = "rejected"
       /\ promises'[TopAct(M).p].val = thrown.v]_vars

\* an error of the engine about its own state
StateInvariantErrors ==
  {ErrorV("Awaiting promise is already set"), ErrorV("Awaiting promise is not set"),
   ErrorV("Execution stack is empty")}
\* the host has handed execution 1 to several drivers
SeveralDrivers == host = "drivers" /\ Cardinality(DriversOf(1)) > 1

\* C38: an execution driven by several drivers at once (of `await p; log(id)`
\* or of `await p; f()` with an f that logs 1 and throws) has the effects it
\* has with one driver, which logs 1 once at most; no error about the
\* engine's own state is thrown; and once the stack is empty and the host's
\* task and the microtasks are over, every wait() promise is resolved.
C38_SeveralDriversAsOne ==
  SeveralDrivers =>
    /\ log \in Prefixes(<<<<Num(1)>>>>)
    /\ thrown.on => thrown.v \notin StateInvariantErrors
    /\ (Idle /\ executions[1].stack = <<>>) =>
         \A d \in WaitDrivers : promises[drivers[d].p].st = "fulfilled"
====
